---- MODULE Spec2Model ----
(***************************************************************************)
(* Model of junit_to_html.py: the JUnit XML -> Issue extraction of         *)
(* parse_junit.                                                            *)
(*                                                                         *)
(* A text is a sequence of characters; a character is a one-character      *)
(* string, or the name of a code point that a TLA+ string cannot hold      *)
(* ("U+0664" is ARABIC-INDIC DIGIT FOUR, "U+2026" the ellipsis, "U+2028"   *)
(* LINE SEPARATOR), which stands for one character.                        *)
(***************************************************************************)
EXTENDS Integers, Sequences, FiniteSets, TLC

VARIABLES
    doc,       \* the parsed XML document: the root's testsuite children
    si,        \* parse_junit: index of the testsuite being visited
    ti,        \* parse_junit: index of the testcase being visited
    issues,    \* parse_junit: the list of Issues built so far
    pc,        \* parse_junit: "run" while looping, "done" once returned
    msg_in,    \* a single failure element's attributes (message-level runs)
    msg_out,   \* the Issue built from msg_in, <<>> before it is built
    url_in,    \* extract_base_url: its arguments curl_cmd and suite_name
    url_out,   \* extract_base_url: <<its result>>, <<>> before it returns
    page,      \* make_html: <<what it computed>>, <<>> before it returns
    run,       \* main: the input file, the output file and the step reached
    ui         \* the page open in a browser: what the user sees and did

vars == <<doc, si, ti, issues, pc, msg_in, msg_out, url_in, url_out, page, run, ui>>

\* the variables of the report and of its use, which parse_junit leaves alone
reportVars == <<url_in, url_out, page, run, ui>>

\* the value of a variable that a run does not use
Idle == <<>>

\* no run of the report or of its use is going on
ReportIdle ==
    /\ url_in = Idle
    /\ url_out = Idle
    /\ page = Idle
    /\ run = Idle
    /\ ui = Idle

-----------------------------------------------------------------------------
(* Bounds of the model.                                                    *)

\* the longest failure message, counted in pieces of MsgPieces
MaxPieces == 3
\* the most testsuite elements under the root
MaxSuites == 2
\* the most testcase elements in the whole document
MaxCases == 2

-----------------------------------------------------------------------------
(* Characters and Python's character classes.                              *)

Ellipsis == "U+2026"

AsciiDigits == {"0", "1", "2", "3", "4", "5", "6", "7", "8", "9"}

\* a sample of the decimal digits (category Nd) outside ASCII
ArabicIndicDigits == {"U+0660", "U+0664", "U+0665"}

\* \d of a str pattern compiled without re.ASCII: any Unicode decimal digit
IsDigit(c) == c \in AsciiDigits \cup ArabicIndicDigits

\* the characters str.strip() and str.split() treat as whitespace
Whitespace == {" ", "\t", "\n", "\r", "\f", "U+2028"}

IsSpace(c) == c \in Whitespace

\* the characters str.splitlines() breaks lines at
LineBreaks == {"\n", "\r", "\f", "U+2028"}

\* the characters the class [^\n\r] of KIND_RE excludes
KindStop == {"\n", "\r"}

UpperCase == <<"A", "B", "C", "D", "E", "F", "G", "H", "I", "J", "K", "L", "M",
               "N", "O", "P", "Q", "R", "S", "T", "U", "V", "W", "X", "Y", "Z">>

LowerCase == <<"a", "b", "c", "d", "e", "f", "g", "h", "i", "j", "k", "l", "m",
               "n", "o", "p", "q", "r", "s", "t", "u", "v", "w", "x", "y", "z">>

UpperSet == {UpperCase[i] : i \in 1..26}

LowerSet == {LowerCase[i] : i \in 1..26}

\* the lower-case form of each upper-case letter
LowerOf == [c \in UpperSet |-> LowerCase[CHOOSE i \in 1..26 : UpperCase[i] = c]]

LowerChar(c) == IF c \in UpperSet THEN LowerOf[c] ELSE c

-----------------------------------------------------------------------------
(* Python string methods, on texts.                                        *)

SetMin(S) == CHOOSE m \in S : \A n \in S : m <= n

SetMax(S) == CHOOSE m \in S : \A n \in S : m >= n

\* str.lower()
Lower(s) == [i \in 1..Len(s) |-> LowerChar(s[i])]

\* str.startswith(prefix)
StartsWith(s, prefix) ==
    /\ Len(s) >= Len(prefix)
    /\ SubSeq(s, 1, Len(prefix)) = prefix

\* the first index from i upwards that holds no whitespace, Len(s) + 1 if none
RECURSIVE FirstNonSpace(_, _)
FirstNonSpace(s, i) ==
    IF i > Len(s) \/ ~IsSpace(s[i]) THEN i ELSE FirstNonSpace(s, i + 1)

\* the last index from i downwards that holds no whitespace, 0 if none
RECURSIVE LastNonSpace(_, _)
LastNonSpace(s, i) ==
    IF i < 1 \/ ~IsSpace(s[i]) THEN i ELSE LastNonSpace(s, i - 1)

\* str.strip(): leading and trailing whitespace removed
Strip(s) == SubSeq(s, FirstNonSpace(s, 1), LastNonSpace(s, Len(s)))

\* the concatenation of a sequence of texts
RECURSIVE Concat(_)
Concat(texts) ==
    IF texts = <<>> THEN <<>>
    ELSE IF Len(texts) = 1 THEN texts[1]
    ELSE LET half == Len(texts) \div 2
         IN  Concat(SubSeq(texts, 1, half)) \o Concat(SubSeq(texts, half + 1, Len(texts)))

\* the members of the set S of indices up to n, in ascending order
Ascending(n, S) == SelectSeq([i \in 1..n |-> i], LAMBDA i : i \in S)

\* str.splitlines(): break at each line boundary, "\r\n" being one boundary;
\* the boundaries are not kept and a final boundary opens no empty line
SplitLines(s) ==
    LET \* where a boundary starts: a line break that is not the "\n" of "\r\n"
        brk == Ascending(Len(s), {i \in 1..Len(s) :
                   /\ s[i] \in LineBreaks
                   /\ ~(s[i] = "\n" /\ i > 1 /\ s[i - 1] = "\r")})
        \* the last index of the boundary that starts at i
        EndOf(i) == IF s[i] = "\r" /\ i < Len(s) /\ s[i + 1] = "\n" THEN i + 1 ELSE i
        StartOfLine(k) == IF k = 1 THEN 1 ELSE EndOf(brk[k - 1]) + 1
        open == StartOfLine(Len(brk) + 1) <= Len(s)
    IN  [k \in 1..(Len(brk) + (IF open THEN 1 ELSE 0)) |->
            SubSeq(s, StartOfLine(k), IF k <= Len(brk) THEN brk[k] - 1 ELSE Len(s))]

\* "\n".join(lines)
JoinLines(lines) ==
    Concat([k \in 1..Len(lines) |->
               IF k < Len(lines) THEN Append(lines[k], "\n") ELSE lines[k]])

\* whether text t occurs in text s (Python's "t in s")
Contains(s, t) ==
    \E i \in 1..(Len(s) - Len(t) + 1) : SubSeq(s, i, i + Len(t) - 1) = t

-----------------------------------------------------------------------------
(* The module-level patterns and the literals of parse_junit.              *)

\* "reproduce with"
ReproduceWith == <<"r", "e", "p", "r", "o", "d", "u", "c", "e", " ",
                   "w", "i", "t", "h">>

\* "curl "
CurlPrefix == <<"c", "u", "r", "l", " ">>

\* STATUS_RE matches at i: "[", three digits, "]"
StatusAt(s, i) ==
    /\ i + 4 <= Len(s)
    /\ s[i] = "["
    /\ IsDigit(s[i + 1]) /\ IsDigit(s[i + 2]) /\ IsDigit(s[i + 3])
    /\ s[i + 4] = "]"

\* StatusSearch with a fault: the rightmost match
StatusSearch_Last(s, i) ==
    LET found == Ascending(Len(s), {k \in i..Len(s) : StatusAt(s, k)})
    IN  IF found = <<>> THEN 0 ELSE found[Len(found)]

\* STATUS_RE.search(s): the start of the leftmost match from i on, 0 for None
StatusSearch(s, i) ==
    LET found == Ascending(Len(s), {k \in i..Len(s) : StatusAt(s, k)})
    IN  IF found = <<>> THEN 0 ELSE found[1]

\* KIND_RE matches at i: "- " and at least one character other than \n, \r
KindAt(s, i) ==
    /\ i + 2 <= Len(s)
    /\ s[i] = "-"
    /\ s[i + 1] = " "
    /\ s[i + 2] \notin KindStop

\* KIND_RE.search(s): the start of the leftmost match from i on, 0 for None
KindSearch(s, i) ==
    LET found == Ascending(Len(s), {k \in i..Len(s) : KindAt(s, k)})
    IN  IF found = <<>> THEN 0 ELSE found[1]

\* KindEnd with a fault: the group runs to the end of the text
KindEnd_ToEndOfText(s, j) == Len(s)

\* the last index of the greedy group [^\n\r]+ that starts at j
KindEnd(s, j) ==
    LET stops == Ascending(Len(s), {k \in (j + 1)..Len(s) : s[k] \in KindStop})
    IN  IF stops = <<>> THEN Len(s) ELSE stops[1] - 1

\* m_status.group(1) if m_status else ""
ExtractStatus(raw_msg) ==
    LET m_status == StatusSearch(raw_msg, 1)
    IN  IF m_status = 0 THEN <<>> ELSE SubSeq(raw_msg, m_status + 1, m_status + 3)

\* m_kind.group(1).strip() if m_kind else ""
ExtractKind(raw_msg) ==
    LET m_kind == KindSearch(raw_msg, 1)
    IN  IF m_kind = 0 THEN <<>>
        ELSE Strip(SubSeq(raw_msg, m_kind + 2, KindEnd(raw_msg, m_kind + 2)))

-----------------------------------------------------------------------------
(* The stripping pass over the lines of the raw message.                   *)

\* the state before the first line
StripInit == [clean_lines |-> <<>>, curl_cmd |-> <<>>, seen_reproduce |-> FALSE]

\* whether a line is a "Reproduce with" marker line
IsMarkerLine(line) == StartsWith(Lower(Strip(line)), ReproduceWith)

\* whether a line's trimmed form starts with "curl "
IsCurlLine(line) == StartsWith(Strip(line), CurlPrefix)

\* StripStep with a fault: a curl line is captured and kept in the message
StripStep_KeepsCurlLine(st, line) ==
    LET stripped == Strip(line)
    IN  IF IsMarkerLine(line)
        THEN [st EXCEPT !.seen_reproduce = TRUE]
        ELSE IF IsCurlLine(line)
        THEN [st EXCEPT !.curl_cmd = IF st.curl_cmd = <<>> THEN stripped ELSE @,
                        !.clean_lines = Append(@, line)]
        ELSE IF st.seen_reproduce /\ stripped = <<>>
        THEN st
        ELSE [st EXCEPT !.clean_lines = Append(@, line)]

\* StripStep with a fault: every curl line replaces the captured command
StripStep_LastCurlWins(st, line) ==
    LET stripped == Strip(line)
    IN  IF IsMarkerLine(line)
        THEN [st EXCEPT !.seen_reproduce = TRUE]
        ELSE IF IsCurlLine(line)
        THEN [st EXCEPT !.curl_cmd = stripped]
        ELSE IF st.seen_reproduce /\ stripped = <<>>
        THEN st
        ELSE [st EXCEPT !.clean_lines = Append(@, line)]

\* StripStep with a fault: a line that is kept resets seen_reproduce
StripStep_FlagReset(st, line) ==
    LET stripped == Strip(line)
    IN  IF IsMarkerLine(line)
        THEN [st EXCEPT !.seen_reproduce = TRUE]
        ELSE IF IsCurlLine(line)
        THEN [st EXCEPT !.curl_cmd = IF st.curl_cmd = <<>> THEN stripped ELSE @]
        ELSE IF st.seen_reproduce /\ (StartsWith(stripped, CurlPrefix) \/ stripped = <<>>)
        THEN st
        ELSE [st EXCEPT !.clean_lines = Append(@, line), !.seen_reproduce = FALSE]

\* StripStep with a fault: a marker line that holds "curl " is captured
StripStep_MarkerLineCaptured(st, line) ==
    LET stripped == Strip(line)
    IN  IF IsMarkerLine(line)
        THEN [st EXCEPT !.seen_reproduce = TRUE,
                        !.curl_cmd = IF st.curl_cmd = <<>> /\ Contains(stripped, CurlPrefix)
                                     THEN stripped ELSE @]
        ELSE IF IsCurlLine(line)
        THEN [st EXCEPT !.curl_cmd = IF st.curl_cmd = <<>> THEN stripped ELSE @]
        ELSE IF st.seen_reproduce /\ (StartsWith(stripped, CurlPrefix) \/ stripped = <<>>)
        THEN st
        ELSE [st EXCEPT !.clean_lines = Append(@, line)]

\* one iteration of "for line in lines"
StripStep(st, line) ==
    LET stripped == Strip(line)
    IN  IF IsMarkerLine(line)
        THEN [st EXCEPT !.seen_reproduce = TRUE]
        ELSE IF IsCurlLine(line)
        THEN [st EXCEPT !.curl_cmd = IF st.curl_cmd = <<>> THEN stripped ELSE @]
        ELSE IF st.seen_reproduce /\ (StartsWith(stripped, CurlPrefix) \/ stripped = <<>>)
        THEN st
        ELSE [st EXCEPT !.clean_lines = Append(@, line)]

\* the loop from line i on
RECURSIVE StripLoop(_, _, _)
StripLoop(st, lines, i) ==
    IF i > Len(lines) THEN st
    ELSE StripLoop(StripStep(st, lines[i]), lines, i + 1)

\* the whole pass over raw_msg.splitlines()
StripPass(raw_msg) == StripLoop(StripInit, SplitLines(raw_msg), 1)

\* CleanMessage with a fault: no fall back to raw_msg
CleanMessage_NoFallback(raw_msg, clean_lines) == Strip(JoinLines(clean_lines))

\* msg_clean: the retained lines joined and trimmed, raw_msg when that is empty
CleanMessage(raw_msg, clean_lines) ==
    LET msg_clean == Strip(JoinLines(clean_lines))
    IN  IF msg_clean = <<>> THEN raw_msg ELSE msg_clean

-----------------------------------------------------------------------------
(* textwrap.shorten(msg_clean, width=180, placeholder=Ellipsis).           *)

\* width=180
ShortenWidth == 180

\* placeholder: the one-character text of the ellipsis
Placeholder == <<Ellipsis>>

\* the pattern class [^\d\W]: a letter or the underscore
IsLetter(c) == c \in UpperSet \/ c \in LowerSet \/ c = "_"

\* the pattern class \w
IsWordChar(c) == IsLetter(c) \/ IsDigit(c)

\* the pattern class [\w!"'&.,?]
IsWordPunct(c) == IsWordChar(c) \/ c \in {"!", "\"", "'", "&", ".", ",", "?"}

\* text.split(): the maximal runs of characters that are not whitespace
SplitWords(s) ==
    LET starts == Ascending(Len(s), {i \in 1..Len(s) :
                      ~IsSpace(s[i]) /\ (i = 1 \/ IsSpace(s[i - 1]))})
        ends == Ascending(Len(s), {i \in 1..Len(s) :
                    ~IsSpace(s[i]) /\ (i = Len(s) \/ IsSpace(s[i + 1]))})
    IN  [k \in 1..Len(starts) |-> SubSeq(s, starts[k], ends[k])]

\* ' '.join(words)
JoinWords(words) ==
    Concat([k \in 1..Len(words) |->
               IF k < Len(words) THEN Append(words[k], " ") ELSE words[k]])

\* ' '.join(text.strip().split()): whitespace runs become one space each,
\* leading and trailing whitespace goes
Collapse(s) == JoinWords(SplitWords(s))

\* wordsep_re, hyphenated word: a chunk ends after the hyphen at i when two
\* letters (or letter, hyphen, letter) precede it and a letter and then a
\* letter or hyphen-letter follow
HyphenBreak(t, i) ==
    /\ t[i] = "-"
    /\ \/ i >= 3 /\ IsLetter(t[i - 2]) /\ IsLetter(t[i - 1])
       \/ i >= 4 /\ IsLetter(t[i - 3]) /\ t[i - 2] = "-" /\ IsLetter(t[i - 1])
    /\ i + 2 <= Len(t)
    /\ IsLetter(t[i + 1])
    /\ \/ IsLetter(t[i + 2])
       \/ t[i + 2] = "-" /\ i + 3 <= Len(t) /\ IsLetter(t[i + 3])

\* wordsep_re, em-dash: a run of two or more hyphens from p to q, after a
\* word or punctuation character and before a word character
EmDash(t, p, q) ==
    /\ 2 <= p /\ p < q /\ q < Len(t)
    /\ IsWordPunct(t[p - 1])
    /\ \A k \in p..q : t[k] = "-"
    /\ IsWordChar(t[q + 1])

\* whether wordsep_re.split ends a chunk between t[i] and t[i + 1]
ChunkBreak(t, i) ==
    \/ (t[i] = " ") # (t[i + 1] = " ")
    \/ HyphenBreak(t, i)
    \/ t[i + 1] = "-" /\ \E q \in (i + 2)..(Len(t) - 1) : EmDash(t, i + 1, q)
    \/ t[i] = "-" /\ \E p \in 2..(i - 1) : EmDash(t, p, i)

\* TextWrapper._split: the chunks of a collapsed text
SplitChunks(t) ==
    IF t = <<>> THEN <<>>
    ELSE LET brk == Ascending(Len(t), {i \in 1..(Len(t) - 1) : ChunkBreak(t, i)})
         IN  [k \in 1..(Len(brk) + 1) |->
                 SubSeq(t, IF k = 1 THEN 1 ELSE brk[k - 1] + 1,
                           IF k <= Len(brk) THEN brk[k] ELSE Len(t))]

\* ''.join(chunks)
JoinChunks(chunks) == Concat(chunks)

\* the number of leading chunks that fit in width together
FitCount(chunks) ==
    LET fits == Ascending(Len(chunks), {n \in 1..Len(chunks) :
                    Len(JoinChunks(SubSeq(chunks, 1, n))) <= ShortenWidth})
    IN  Len(fits)

\* TextWrapper._handle_long_word: where to cut a chunk longer than width,
\* after the last hyphen before space_left when other characters precede it
LongWordEnd(chunk, space_left) ==
    LET hyphens == {h \in 2..space_left :
                        /\ h <= Len(chunk)
                        /\ chunk[h] = "-"
                        /\ \E k \in 1..(h - 1) : chunk[k] # "-"}
    IN  IF Len(chunk) > space_left /\ hyphens # {}
        THEN SetMax(hyphens)
        ELSE space_left

\* Truncate with a fault: the room the placeholder takes is not counted
RECURSIVE Truncate_NoRoomForPlaceholder(_)
Truncate_NoRoomForPlaceholder(cur_line) ==
    IF cur_line = <<>> THEN Placeholder
    ELSE IF /\ Strip(cur_line[Len(cur_line)]) # <<>>
            /\ Len(JoinChunks(cur_line)) <= ShortenWidth
         THEN JoinChunks(cur_line) \o Placeholder
         ELSE Truncate_NoRoomForPlaceholder(SubSeq(cur_line, 1, Len(cur_line) - 1))

\* the truncation loop: drop chunks from the end of the line until the last
\* one is not blank and the placeholder fits after it
RECURSIVE Truncate(_)
Truncate(cur_line) ==
    IF cur_line = <<>> THEN Placeholder
    ELSE IF /\ Strip(cur_line[Len(cur_line)]) # <<>>
            /\ Len(JoinChunks(cur_line)) + Len(Placeholder) <= ShortenWidth
         THEN JoinChunks(cur_line) \o Placeholder
         ELSE Truncate(SubSeq(cur_line, 1, Len(cur_line) - 1))

\* TextWrapper._wrap_chunks with max_lines=1: the only line, "" for no line
RECURSIVE WrapChunks(_)
WrapChunks(chunks) ==
    IF chunks = <<>> THEN <<>>
    ELSE
    LET n == FitCount(chunks)
        fitted == SubSeq(chunks, 1, n)
        long == n < Len(chunks) /\ Len(chunks[n + 1]) > ShortenWidth
        end == IF long
               THEN LongWordEnd(chunks[n + 1], ShortenWidth - Len(JoinChunks(fitted)))
               ELSE 0
        line1 == IF long THEN Append(fitted, SubSeq(chunks[n + 1], 1, end))
                 ELSE fitted
        rest == IF long
                THEN <<SubSeq(chunks[n + 1], end + 1, Len(chunks[n + 1]))>>
                         \o SubSeq(chunks, n + 2, Len(chunks))
                ELSE SubSeq(chunks, n + 1, Len(chunks))
        cur_line == IF line1 # <<>> /\ Strip(line1[Len(line1)]) = <<>>
                    THEN SubSeq(line1, 1, Len(line1) - 1)
                    ELSE line1
    IN  IF cur_line = <<>> THEN WrapChunks(rest)
        ELSE IF /\ \/ rest = <<>>
                   \/ Len(rest) = 1 /\ Strip(rest[1]) = <<>>
                /\ Len(JoinChunks(cur_line)) <= ShortenWidth
             THEN JoinChunks(cur_line)
             ELSE Truncate(cur_line)

\* Shorten with a fault: the whitespace of the text is not collapsed
Shorten_NoCollapse(text) == WrapChunks(SplitChunks(text))

\* shorten(text, width=180, placeholder=Ellipsis)
Shorten(text) ==
    LET t == Collapse(text)
    IN  WrapChunks(SplitChunks(t))

-----------------------------------------------------------------------------
(* XML elements: an element is a record of its attributes (a function from *)
(* the names of the attributes present to their values) and its children.  *)

\* AttribGet with a fault: a missing attribute is read as the text "None"
AttribGet_NoneAsText(attrib, key) ==
    IF key \in DOMAIN attrib THEN attrib[key] ELSE <<"N", "o", "n", "e">>

\* element.attrib.get(key, "")
AttribGet(attrib, key) == IF key \in DOMAIN attrib THEN attrib[key] ELSE <<>>

\* MakeIssue with a fault: the status is searched in the stripped message
MakeIssue_StatusAfterStrip(suite_name, tc_name, time, failure_attrib) ==
    LET raw_msg == Strip(AttribGet(failure_attrib, "message"))
        pass == StripPass(raw_msg)
        msg_clean == CleanMessage(raw_msg, pass.clean_lines)
    IN  [suite     |-> suite_name,
         endpoint  |-> tc_name,
         time      |-> time,
         msg       |-> msg_clean,
         msg_short |-> Shorten(msg_clean),
         status    |-> ExtractStatus(msg_clean),
         kind      |-> ExtractKind(raw_msg),
         curl      |-> pass.curl_cmd]

\* the body of the testcase loop for a testcase with a failure child: the
\* Issue appended for it
MakeIssue(suite_name, tc_name, time, failure_attrib) ==
    LET raw_msg == Strip(AttribGet(failure_attrib, "message"))
        pass == StripPass(raw_msg)
        msg_clean == CleanMessage(raw_msg, pass.clean_lines)
    IN  [suite     |-> suite_name,
         endpoint  |-> tc_name,
         time      |-> time,
         msg       |-> msg_clean,
         msg_short |-> Shorten(msg_clean),
         status    |-> ExtractStatus(raw_msg),
         kind      |-> ExtractKind(raw_msg),
         curl      |-> pass.curl_cmd]

\* an element without attributes
NoAttrib == [key \in {} |-> <<>>]

Element(tag, attrib, children) ==
    [tag |-> tag, attrib |-> attrib, children |-> children]

\* element.findall(tag): the direct children with that tag, in document order
FindAll(element_children, tag) ==
    SelectSeq(element_children, LAMBDA e : e.tag = tag)

\* Find with a fault: the first child, whatever its tag
Find_FirstChild(element_children, tag) ==
    IF element_children = <<>> THEN <<>> ELSE <<element_children[1]>>

\* element.find(tag): the first such child, as a sequence of at most one
Find(element_children, tag) ==
    LET found == FindAll(element_children, tag)
    IN  IF found = <<>> THEN <<>> ELSE <<found[1]>>

-----------------------------------------------------------------------------
(* extract_base_url: URL_RE and urllib.parse.urlparse.                     *)

\* "http://" and "https://"
HttpPrefix == <<"h", "t", "t", "p", ":", "/", "/">>

HttpsPrefix == <<"h", "t", "t", "p", "s", ":", "/", "/">>

\* the pattern class [^\s'"]
IsUrlChar(c) == ~IsSpace(c) /\ c \notin {"'", "\""}

\* whether the text t stands in s at index i
OccursAt(s, t, i) ==
    /\ i + Len(t) - 1 <= Len(s)
    /\ SubSeq(s, i, i + Len(t) - 1) = t

\* the length of the "https?://" that URL_RE matches at index i of s, which
\* at least one character of the class must follow; 0 when it does not match
UrlPrefixAt(s, i) ==
    IF /\ OccursAt(s, HttpsPrefix, i)
       /\ i + Len(HttpsPrefix) <= Len(s)
       /\ IsUrlChar(s[i + Len(HttpsPrefix)])
    THEN Len(HttpsPrefix)
    ELSE IF /\ OccursAt(s, HttpPrefix, i)
            /\ i + Len(HttpPrefix) <= Len(s)
            /\ IsUrlChar(s[i + Len(HttpPrefix)])
         THEN Len(HttpPrefix)
         ELSE 0

\* URL_RE.search(s): the index of the leftmost match, 0 for None
UrlSearch(s) ==
    LET at == {i \in 1..Len(s) : UrlPrefixAt(s, i) > 0}
    IN  IF at = {} THEN 0 ELSE SetMin(at)

\* url_match.group(0) of the match at i: the prefix and the longest run of
\* characters of the class after it
UrlGroup(s, i) ==
    LET from == i + UrlPrefixAt(s, i)
        stops == {j \in from..Len(s) : ~IsUrlChar(s[j])}
        end == IF stops = {} THEN Len(s) ELSE SetMin(stops) - 1
    IN  SubSeq(s, i, end)

\* _splitnetloc: the index in url of the first "/", "?" or "#" from start on,
\* Len(url) + 1 when there is none
NetlocEnd(url, start) ==
    LET delims == {j \in start..Len(url) : url[j] \in {"/", "?", "#"}}
    IN  IF delims = {} THEN Len(url) + 1 ELSE SetMin(delims)

\* urlparse(full_url) of a text that URL_RE matched: the scheme is the text
\* before the first ":", the netloc the text after "//" up to the first "/",
\* "?" or "#"; ValueError ("Invalid IPv6 URL") is raised when the netloc holds
\* one of "[" and "]" without the other.  (The check of a host between both
\* brackets is left out: no input of the model holds a "]".)
urlparse(full_url) ==
    LET colon == SetMin({j \in 1..Len(full_url) : full_url[j] = ":"})
        start == colon + 3
        netloc == SubSeq(full_url, start, NetlocEnd(full_url, start) - 1)
        chars == {netloc[j] : j \in 1..Len(netloc)}
    IN  [raised |-> ("[" \in chars) # ("]" \in chars),
         scheme |-> Lower(SubSeq(full_url, 1, colon - 1)),
         netloc |-> netloc]

\* one of the two blocks of extract_base_url, on the text it searches:
\* <<base_url>> when it returns, <<>> when it falls through
BaseUrlFrom(text) ==
    IF text = <<>> \/ UrlSearch(text) = 0 THEN <<>>
    ELSE LET parsed == urlparse(UrlGroup(text, UrlSearch(text)))
         IN  IF parsed.raised THEN <<>>
             ELSE <<parsed.scheme \o <<":", "/", "/">> \o parsed.netloc>>

\* extract_base_url with a fault: the suite name is searched first
extract_base_url_SuiteFirst(curl_cmd, suite_name) ==
    IF BaseUrlFrom(suite_name) # <<>> THEN BaseUrlFrom(suite_name)[1]
    ELSE IF BaseUrlFrom(curl_cmd) # <<>> THEN BaseUrlFrom(curl_cmd)[1]
    ELSE <<>>

\* extract_base_url(curl_cmd, suite_name)
extract_base_url(curl_cmd, suite_name) ==
    IF BaseUrlFrom(curl_cmd) # <<>> THEN BaseUrlFrom(curl_cmd)[1]
    ELSE IF BaseUrlFrom(suite_name) # <<>> THEN BaseUrlFrom(suite_name)[1]
    ELSE <<>>

-----------------------------------------------------------------------------
(* make_html: the figures of the summary, lines 132-158.                   *)

\* the value of a decimal digit, as int() and float() read it
DigitValue(c) ==
    CASE c \in {"0", "U+0660"} -> 0
      [] c = "1" -> 1
      [] c = "2" -> 2
      [] c = "3" -> 3
      [] c \in {"4", "U+0664"} -> 4
      [] c \in {"5", "U+0665"} -> 5
      [] c = "6" -> 6
      [] c = "7" -> 7
      [] c = "8" -> 8
      [] c = "9" -> 9

\* str.isdigit(): not empty and digits only
isdigit(s) == s # <<>> /\ \A i \in 1..Len(s) : IsDigit(s[i])

\* int(s) of a text of digits
RECURSIVE int(_)
int(s) ==
    IF s = <<>> THEN 0
    ELSE 10 * int(SubSeq(s, 1, Len(s) - 1)) + DigitValue(s[Len(s)])

\* the test of total_5xx with a fault: 600 is let in
Is5xx_UpTo600(issue) ==
    isdigit(issue.status) /\ 500 <= int(issue.status) /\ int(issue.status) <= 600

\* i["status"].isdigit() and 500 <= int(i["status"]) < 600
Is5xx(issue) ==
    isdigit(issue.status) /\ 500 <= int(issue.status) /\ int(issue.status) < 600

\* i["status"].isdigit() and 400 <= int(i["status"]) < 500
Is4xx(issue) ==
    isdigit(issue.status) /\ 400 <= int(issue.status) /\ int(issue.status) < 500

\* the code point of a character
CodePoint(c) ==
    LET ascii == <<" ", "!", "\"", "#", "$", "%", "&", "'", "(", ")", "*", "+",
                   ",", "-", ".", "/", "0", "1", "2", "3", "4", "5", "6", "7",
                   "8", "9", ":", ";", "<", "=", ">", "?", "@", "A", "B", "C",
                   "D", "E", "F", "G", "H", "I", "J", "K", "L", "M", "N", "O",
                   "P", "Q", "R", "S", "T", "U", "V", "W", "X", "Y", "Z", "[",
                   "\\", "]", "^", "_", "U+0060", "a", "b", "c", "d", "e", "f", "g",
                   "h", "i", "j", "k", "l", "m", "n", "o", "p", "q", "r", "s",
                   "t", "u", "v", "w", "x", "y", "z", "{", "|", "}", "~">>
    IN  CASE c = "\t" -> 9
          [] c = "\n" -> 10
          [] c = "\f" -> 12
          [] c = "\r" -> 13
          [] c = "U+0660" -> 1632
          [] c = "U+0664" -> 1636
          [] c = "U+0665" -> 1637
          [] c = "U+2026" -> 8230
          [] c = "U+2028" -> 8232
          [] OTHER -> 31 + CHOOSE i \in 1..Len(ascii) : ascii[i] = c

\* a < b for str: at the first index where they differ a has the smaller
\* code point, or a ends there
StrLess(a, b) ==
    \E k \in 1..(Len(b)) :
        /\ k <= Len(a) + 1
        /\ SubSeq(a, 1, k - 1) = SubSeq(b, 1, k - 1)
        /\ k = Len(a) + 1 \/ CodePoint(a[k]) < CodePoint(b[k])

\* sorted(base_urls) of a set of str
RECURSIVE sorted(_)
sorted(set) ==
    IF set = {} THEN <<>>
    ELSE LET least == CHOOSE a \in set : \A b \in set : a = b \/ StrLess(a, b)
         IN  <<least>> \o sorted(set \ {least})

\* issue.get("curl", "")
IssueGet(issue, key) == IF key \in DOMAIN issue THEN issue[key] ELSE <<>>

\* lines 141-145: the set of the base URLs of the Issues that are not empty
BaseUrlSet(list) ==
    {extract_base_url(IssueGet(list[i], "curl"), IssueGet(list[i], "suite")) :
         i \in 1..Len(list)} \ {<<>>}

\* a float: not-a-number, or a number held in thousandths
NaN == [nan |-> TRUE, milli |-> 0]

Float(milli) == [nan |-> FALSE, milli |-> milli]

\* whether body is digits with at most one "." among them and a digit at all
IsDecimal(body) ==
    /\ \E i \in 1..Len(body) : IsDigit(body[i])
    /\ \A i \in 1..Len(body) : IsDigit(body[i]) \/ body[i] = "."
    /\ Cardinality({i \in 1..Len(body) : body[i] = "."}) <= 1

\* the thousandths of a decimal body; its fraction has three digits at most
Thousandths(body) ==
    LET dots == {i \in 1..Len(body) : body[i] = "."}
        dot == IF dots = {} THEN Len(body) + 1 ELSE SetMin(dots)
        whole == SubSeq(body, 1, dot - 1)
        fraction == SubSeq(body, dot + 1, Len(body))
        padded == [i \in 1..3 |-> IF i <= Len(fraction) THEN fraction[i] ELSE "0"]
    IN  1000 * int(whole) + int(padded)

\* float(text): <<the float>>, <<>> for ValueError.  The text is trimmed and
\* may be signed; "nan" in any case is not-a-number.  (Infinities, exponents
\* and underscores, which float() also reads, are in no input of the model.)
float(text) ==
    LET t == Strip(text)
        signed == t # <<>> /\ t[1] \in {"+", "-"}
        body == IF signed THEN SubSeq(t, 2, Len(t)) ELSE t
    IN  IF Lower(body) = <<"n", "a", "n">> THEN <<NaN>>
        ELSE IF ~IsDecimal(body) THEN <<>>
        ELSE IF signed /\ t[1] = "-" THEN <<Float(0 - Thousandths(body))>>
        ELSE <<Float(Thousandths(body))>>

\* a < b for float: false when either is not-a-number
FloatLess(a, b) == ~a.nan /\ ~b.nan /\ a.milli < b.milli

\* lines 149-155: the times that float() reads, in the order of the Issues
Times(list) ==
    LET read == SelectSeq(list, LAMBDA issue : float(issue.time) # <<>>)
    IN  [i \in 1..Len(read) |-> float(read[i].time)[1]]

\* min(times): the first item that no later item is less than
RECURSIVE min(_)
min(times) ==
    IF Len(times) = 1 THEN times[1]
    ELSE LET best == min(SubSeq(times, 1, Len(times) - 1))
         IN  IF FloatLess(times[Len(times)], best) THEN times[Len(times)] ELSE best

\* max(times)
RECURSIVE max(_)
max(times) ==
    IF Len(times) = 1 THEN times[1]
    ELSE LET best == max(SubSeq(times, 1, Len(times) - 1))
         IN  IF FloatLess(best, times[Len(times)]) THEN times[Len(times)] ELSE best

-----------------------------------------------------------------------------
(* make_html: the page.  The page is a sequence of tokens: a stretch of    *)
(* the template ("lit"), a label of the template in another script         *)
(* ("label", named in English), a stretch of the template without rows     *)
(* ("static", named by its lines), or one character of a value put into    *)
(* the template, inside a single-quoted attribute ("attr") or inside an    *)
(* element ("text").                                                       *)

Lit(text) == <<[kind |-> "lit", text |-> text]>>

Label(text) == <<[kind |-> "label", text |-> text]>>

Static(text) == <<[kind |-> "static", text |-> text]>>

AttrValue(chars) == [i \in 1..Len(chars) |-> [kind |-> "attr", text |-> chars[i]]]

TextNode(chars) == [i \in 1..Len(chars) |-> [kind |-> "text", text |-> chars[i]]]

\* the decimal digits of a natural number
Num(n) == Lit(ToString(n))

\* html.escape, one character
EscapeChar(c, quote) ==
    CASE c = "&" -> <<"&", "a", "m", "p", ";">>
      [] c = "<" -> <<"&", "l", "t", ";">>
      [] c = ">" -> <<"&", "g", "t", ";">>
      [] c = "\"" /\ quote -> <<"&", "q", "u", "o", "t", ";">>
      [] c = "'" /\ quote -> <<"&", "#", "x", "2", "7", ";">>
      [] OTHER -> <<c>>

\* html_mod.escape(s, quote)
escape(s, quote) == Concat([i \in 1..Len(s) |-> EscapeChar(s[i], quote)])

\* status_pill_html(status)
status_pill_html(status) ==
    IF isdigit(status) /\ 500 <= int(status) /\ int(status) < 600
    THEN Lit("<span class='pill pill-5xx'>") \o Num(int(status)) \o Lit("</span>")
    ELSE IF isdigit(status) /\ 400 <= int(status) /\ int(status) < 500
    THEN Lit("<span class='pill pill-4xx'>") \o Num(int(status)) \o Lit("</span>")
    ELSE IF isdigit(status) /\ 200 <= int(status) /\ int(status) < 300
    THEN Lit("<span class='pill pill-2xx'>") \o Num(int(status)) \o Lit("</span>")
    ELSE Lit("<span class='pill pill-unk'>n/a</span>")

\* the format :.6f of a float held in thousandths
Fixed6(f) ==
    IF f.nan THEN Lit("nan")
    ELSE LET abs == IF f.milli < 0 THEN 0 - f.milli ELSE f.milli
             frac == abs % 1000
         IN  (IF f.milli < 0 THEN Lit("-") ELSE <<>>)
                 \o Num(abs \div 1000) \o Lit(".")
                 \o (IF frac < 10 THEN Lit("00") ELSE IF frac < 100 THEN Lit("0") ELSE <<>>)
                 \o Num(frac) \o Lit("000")

\* lines 969-972: float(time), 0.0 when it cannot be read
TimeFloat(time) == IF float(time) # <<>> THEN float(time)[1] ELSE Float(0)

\* RowParts with a fault: the details row is written without its style
DetailsRowOpen_Shown(idx) ==
    Lit("<tr class='details-row' id='details-") \o Num(idx) \o Lit("' data-status='")

\* lines 995-996: the start of the details row
DetailsRowOpen(idx) ==
    Lit("<tr class='details-row' id='details-") \o Num(idx)
        \o Lit("' style='display:none;' data-status='")

\* lines 962-980: the start tag of the main row
MainRowStart(idx, issue) ==
    LET endpoint_attr == escape(Lower(issue.endpoint), TRUE)
        row_class == IF idx % 2 = 0 THEN "even" ELSE "odd"
    IN  Lit("<tr class='main-row ") \o Lit(row_class) \o Lit("' data-idx='")
            \o Num(idx) \o Lit("' data-status='") \o AttrValue(issue.status)
            \o Lit("' data-endpoint='") \o AttrValue(endpoint_attr)
            \o Lit("' data-time='") \o Fixed6(TimeFloat(issue.time))
            \o Lit("' onclick=\"toggleDetails(") \o Num(idx) \o Lit(")\">")

\* lines 993-1002: the start tag of the details row
DetailsRowStart(idx, issue) ==
    LET endpoint_attr == escape(Lower(issue.endpoint), TRUE)
        safe_time == escape(issue.time, TRUE)
        safe_curl_attr == IF issue.curl # <<>> THEN escape(issue.curl, TRUE) ELSE <<>>
    IN  DetailsRowOpen(idx) \o AttrValue(issue.status)
            \o Lit("' data-endpoint='") \o AttrValue(endpoint_attr)
            \o Lit("' data-time='") \o AttrValue(safe_time)
            \o Lit("' data-suite='") \o AttrValue(escape(issue.suite, TRUE))
            \o Lit("' data-kind='") \o AttrValue(escape(issue.kind, TRUE))
            \o Lit("' data-curl='") \o AttrValue(safe_curl_attr) \o Lit("'>")

\* lines 946-1053: the parts appended for the Issue of number idx
RowParts(idx, issue) ==
    LET suite == issue.suite
        tc_name == issue.endpoint
        time == issue.time
        msg_short == issue.msg_short
        full == issue.msg
        status == issue.status
        kind == issue.kind
        curl_cmd == issue.curl
        safe_suite == escape(suite, TRUE)
        safe_tc == escape(tc_name, TRUE)
        safe_time == escape(time, TRUE)
        safe_short == escape(msg_short, TRUE)
        safe_full == escape(full, FALSE)
        safe_kind == escape(kind, TRUE)
    IN  << MainRowStart(idx, issue),
           Lit("<td>") \o Num(idx) \o Lit("</td>"),
           Lit("<td>") \o status_pill_html(status) \o Lit("</td>"),
           Lit("<td class='endpoint'>") \o TextNode(safe_tc) \o Lit("</td>"),
           Lit("<td>") \o TextNode(safe_time) \o Lit("</td>"),
           Lit("<td>") \o Lit("<div class='msg-short'>") \o TextNode(safe_short)
               \o Lit("</div>")
               \o (IF kind # <<>>
                   THEN Lit("<div class='kind'>") \o TextNode(safe_kind) \o Lit("</div>")
                   ELSE <<>>)
               \o Lit("</td>"),
           Lit("</tr>"),
           DetailsRowStart(idx, issue),
           Lit("<td colspan='5'>"),
           Lit("<div class='details-box'>"),
           Lit("<div class='details-header'>"),
           Lit("<div>") \o status_pill_html(status) \o Lit(" <span class='code-tag'>")
               \o TextNode(safe_suite) \o Lit("</span>") \o Lit("</div>"),
           Lit("<button class='btn' type='button' onclick='openModalFromDetails(event, ")
               \o Num(idx) \o Lit(")'>") \o Label("Open in a separate window")
               \o Lit("</button>"),
           Lit("</div>"),
           Lit("<pre id='details-pre-") \o Num(idx) \o Lit("'>")
               \o TextNode(safe_full) \o Lit("</pre>") >>
        \o (IF curl_cmd # <<>>
            THEN << Lit("<div class='curl-row'>"),
                    Lit("<span class='code-tag'>curl</span>"),
                    Lit("<pre class='curl-snippet' id='curl-") \o Num(idx) \o Lit("'>")
                        \o TextNode(escape(curl_cmd, TRUE)) \o Lit("</pre>"),
                    Lit("<button class='btn btn-copy' type='button' onclick='copyCurl(\"curl-")
                        \o Num(idx) \o Lit("\")'>") \o Label("Copy curl")
                        \o Lit("</button>"),
                    Lit("<button class='btn btn-execute' type='button' id='execute-curl-btn-")
                        \o Num(idx) \o Lit("' onclick='executeCurlFromDetails(")
                        \o Num(idx) \o Lit(")'>") \o Label("Execute curl")
                        \o Lit("</button>"),
                    Lit("</div>"),
                    Lit("<div id='curl-result-") \o Num(idx)
                        \o Lit("' style='display:none; margin-top: 16px; padding: 16px; background: var(--bg-alt); border-radius: 12px; border: 1px solid var(--border-light);'>"),
                    Lit("<div class='modal-section-title' style='margin-bottom: 12px;'>")
                        \o Label("Result of the execution") \o Lit("</div>"),
                    Lit("<div id='curl-result-status-") \o Num(idx)
                        \o Lit("' style='margin-bottom: 12px;'></div>"),
                    Lit("<div id='curl-result-headers-") \o Num(idx)
                        \o Lit("' style='margin-bottom: 12px;'></div>"),
                    Lit("<pre id='curl-result-body-") \o Num(idx)
                        \o Lit("' style='margin: 0; max-height: 400px; overflow-y: auto;'></pre>"),
                    Lit("</div>") >>
            ELSE <<>>)
        \o << Lit("</div>"), Lit("</td></tr>") >>

\* lines 161-190: url_block
UrlBlock(base_urls, total, total_5xx, total_4xx) ==
    << Lit("<div class='url-container'>"),
       Lit("<div style='display: flex; justify-content: space-between; align-items: flex-start; gap: 16px; flex-wrap: wrap;'>") >>
        \o (IF base_urls # <<>>
            THEN << Lit("<div style='flex: 1; min-width: 200px;'>"),
                    Lit("<div class='url-label'>") \o Label("Base URL") \o Lit("</div>"),
                    Lit("<div class='url-list'>") >>
                 \o [k \in 1..Len(base_urls) |->
                        Lit("<div class='url-badge'>") \o Static("lines 175-176: svg")
                            \o Lit("</svg>") \o TextNode(escape(base_urls[k], TRUE))
                            \o Lit("</div>")]
                 \o << Lit("</div>"), Lit("</div>") >>
            ELSE <<>>)
        \o << Lit("<div style='flex: 1; min-width: 200px;'>"),
              Lit("<div class='url-label'>") \o Label("Statistics") \o Lit("</div>"),
              Lit("<div class='url-stats'>") \o Label("Errors in all: ")
                  \o Lit("<strong>") \o Num(total) \o Lit("</strong> · 5xx: <strong>")
                  \o Num(total_5xx) \o Lit("</strong> · 4xx: <strong>")
                  \o Num(total_4xx) \o Lit("</strong></div>"),
              Lit("</div>"),
              Lit("</div>"),
              Lit("</div>") >>

\* "\n".join(parts)
JoinParts(parts) ==
    Concat([k \in 1..Len(parts) |->
               IF k < Len(parts) THEN parts[k] \o Lit("\n") ELSE parts[k]])

\* line 157: min(times) if times else 0.0
MinTimeOf(list) == IF Times(list) # <<>> THEN min(Times(list)) ELSE Float(0)

\* line 158: max(times) if times else 1.0
MaxTimeOf(list) == IF Times(list) # <<>> THEN max(Times(list)) ELSE Float(1000)

\* make_html(issues): the figures it computes and the page it returns
make_html(list) ==
    LET total == Len(list)
        total_5xx == Len(SelectSeq(list, Is5xx))
        total_4xx == Len(SelectSeq(list, Is4xx))
        base_urls == sorted(BaseUrlSet(list))
        min_time == MinTimeOf(list)
        max_time == MaxTimeOf(list)
        parts == << Static("lines 193-906: head, style, title") >>
                     \o UrlBlock(base_urls, total, total_5xx, total_4xx)
                     \o << Static("lines 908-909: toolbar, chips"),
                           Lit("<div class='chip'><strong>") \o Num(total)
                               \o Lit("</strong> <span>") \o Label("requests")
                               \o Lit("</span></div>"),
                           Lit("<div class='chip'><strong>") \o Num(total_5xx)
                               \o Lit("</strong> <span>") \o Label("5xx errors")
                               \o Lit("</span></div>"),
                           Lit("<div class='chip'><strong>") \o Num(total_4xx)
                               \o Lit("</strong> <span>") \o Label("4xx errors")
                               \o Lit("</span></div>"),
                           Static("lines 913-924: filters, search"),
                           Lit("<input type='range' class='time-slider' id='time-filter' min='")
                               \o Fixed6(min_time) \o Lit("' max='") \o Fixed6(max_time)
                               \o Static("lines 926-927: step, value, oninput"),
                           Static("lines 928-939: time value, theme button, hints"),
                           Lit("<table>"),
                           Lit("<thead><tr><th>#</th><th>")
                               \o Label("Status, Endpoint, Time, Test")
                               \o Lit("</th></tr></thead>"),
                           Lit("<tbody>") >>
                     \o Concat([k \in 1..Len(list) |-> RowParts(k, list[k])])
                     \o << Lit("</tbody></table>"),
                           Static("lines 1058-1576: modal, toast, script") >>
    IN  [total |-> total, total_5xx |-> total_5xx, total_4xx |-> total_4xx,
         base_urls |-> base_urls, min_time |-> min_time, max_time |-> max_time,
         html |-> JoinParts(parts)]

-----------------------------------------------------------------------------
(* The inputs: failure messages and documents.                             *)

Text(a, b) == <<a, b>>

\* the fragments failure messages are built from
MsgPieces ==
    { <<"x">>,
      <<" ">>,
      <<"\n">>,
      <<"\r">>,
      <<"U+2028">>,
      <<"-", " ">>,
      <<"[", "4", "0", "4", "]">>,
      <<"[", "5", "0", "0", "]">>,
      <<"[", "U+0664", "U+0660", "U+0664", "]">>,
      <<"R", "e", "p", "r", "o", "d", "u", "c", "e", " ", "W", "i", "t", "h", ":">>,
      <<"c", "u", "r", "l", " ", "a">> }

\* "[500] - x", blank line, "Reproduce with:", blank line, "curl a"
MsgRoundTrip ==
    <<"[", "5", "0", "0", "]", " ", "-", " ", "x", "\n", "\n",
      "R", "e", "p", "r", "o", "d", "u", "c", "e", " ", "w", "i", "t", "h", ":",
      "\n", "\n", "c", "u", "r", "l", " ", "a">>

\* a message without marker: "x [404]", then the lines "curl b" and " curl a"
MsgNoMarker ==
    <<"x", " ", "[", "4", "0", "4", "]", "\n", "c", "u", "r", "l", " ", "b",
      "\n", " ", "c", "u", "r", "l", " ", "a">>

\* a status that only the curl line carries: "x", then the line "curl a [500]"
MsgStatusInCurl ==
    <<"x", "\n", "c", "u", "r", "l", " ", "a", " ", "[", "5", "0", "0", "]">>

\* "Not a server error"
NotAServerError ==
    <<"N", "o", "t", " ", "a", " ", "s", "e", "r", "v", "e", "r", " ",
      "e", "r", "r", "o", "r">>

\* a "- " that ends its line, then "[404] - Not a server error " and a line
MsgKind ==
    <<"-", " ", "\n", "[", "4", "0", "4", "]", " ", "-", " ">>
        \o NotAServerError \o <<" ", "\n", "x">>

\* the lines "x", "", "Reproduce with:", "y", " ", "z"
MsgBlankLines ==
    <<"x", "\n", "\n", "R", "e", "p", "r", "o", "d", "u", "c", "e", " ",
      "w", "i", "t", "h", ":", "\n", "y", "\n", " ", "\n", "z">>

\* no marker: the lines "x", "", " ", "y"
MsgBlankNoMarker == <<"x", "\n", "\n", " ", "\n", "y">>

\* the lines "x" and "Reproduce with: curl -X GET b"
MsgMarkerWithCurl ==
    <<"x", "\n", "R", "e", "p", "r", "o", "d", "u", "c", "e", " ", "w",
      "i", "t", "h", ":", " ", "c", "u", "r", "l", " ", "-", "X", " ", "G",
      "E", "T", " ", "b">>

\* long messages of n characters, around the width of message_short: one
\* word, words of six letters, a hyphenated word, words with em-dashes,
\* lines of words, and words that end in an ellipsis of their own
LongText(shape, n) ==
    [i \in 1..n |->
        CASE shape = "word" -> "x"
          [] shape = "words" -> IF i % 7 = 0 THEN " " ELSE "x"
          [] shape = "hyphens" -> IF i % 3 = 0 THEN "-" ELSE "a"
          [] shape = "dashes" -> IF i % 5 = 0 \/ i % 5 = 4 THEN "-" ELSE "a"
          [] shape = "lines" -> IF i % 9 = 2 THEN "\n"
                                ELSE IF i % 9 = 5 \/ i % 9 = 6 THEN " " ELSE "x"
          [] shape = "ellipses" -> IF i % 7 = 0 THEN " "
                                   ELSE IF i % 7 = 6 THEN Ellipsis ELSE "x"]

LongShapes == {"word", "words", "hyphens", "dashes", "lines", "ellipses"}

\* whether attrib is the attributes of a failure element of the message-level
\* runs: none, or a message that is one of those above, a long text, or
\* made of at most MaxPieces pieces
IsFailureAttrib(attrib) ==
    \/ attrib = NoAttrib
    \/ \E m \in {MsgRoundTrip, MsgNoMarker, MsgStatusInCurl, MsgKind,
                 MsgBlankLines, MsgBlankNoMarker, MsgMarkerWithCurl} :
           attrib = [message |-> m]
    \/ \E shape \in LongShapes : \E n \in (ShortenWidth - 4)..(ShortenWidth + 4) :
           attrib = [message |-> LongText(shape, n)]
    \/ \E n \in 0..MaxPieces : \E pieces \in [1..n -> MsgPieces] :
           attrib = [message |-> Concat(pieces)]

SystemOut == Element("system-out", NoAttrib, <<>>)

Failure(attrib) == Element("failure", attrib, <<>>)

\* the children a testsuite element may have
SuiteChildren ==
    { Element("testcase", [name |-> Text("e", "0"), time |-> Text("0", "1")],
              <<SystemOut>>),
      Element("testcase", [name |-> Text("e", "1"), time |-> Text("3", "4")],
              <<Failure([message |-> MsgRoundTrip])>>),
      Element("testcase", [name |-> Text("e", "2"), time |-> Text("n", "o")],
              <<SystemOut, Failure([message |-> MsgNoMarker])>>),
      Element("testcase", NoAttrib, <<Failure(NoAttrib)>>),
      Element("properties", NoAttrib, <<>>) }

\* the children the root may have, before their own children are added
RootChildren ==
    { Element("testsuite", NoAttrib, <<>>),
      Element("testsuite", [name |-> Text("s", "1")], <<>>),
      Element("testsuite", [name |-> Text("s", "2")], <<>>),
      Element("properties", NoAttrib, <<>>) }

\* the elements of kids that owner gives to root child j, in their order
KidsOf(kids, owner, j) ==
    LET mine == SelectSeq([k \in 1..Len(kids) |-> k], LAMBDA k : owner[k] = j)
    IN  [i \in 1..Len(mine) |-> kids[mine[i]]]

\* whether d is a document of at most MaxSuites root children that hold at
\* most MaxCases elements between them: root children heads, the elements
\* kids below them, kids[k] being a child of heads[owner[k]]
IsDocument(d) ==
    \E n \in 0..MaxSuites : \E m \in 0..MaxCases :
        \E heads \in [1..n -> RootChildren] :
            \E kids \in [1..m -> SuiteChildren] :
                \E owner \in [1..m -> 1..n] :
                    /\ \A k \in 1..(m - 1) : owner[k] <= owner[k + 1]
                    /\ d = [j \in 1..n |->
                               Element(heads[j].tag, heads[j].attrib,
                                       KidsOf(kids, owner, j))]

-----------------------------------------------------------------------------
(* parse_junit as a state machine over the document.                       *)

\* root.findall("testsuite")
Suites == FindAll(doc, "testsuite")

\* testsuite.findall("testcase") of the suite being visited
Cases == FindAll(Suites[si].children, "testcase")

Init ==
    /\ IsDocument(doc)
    /\ si = 1
    /\ ti = 1
    /\ issues = <<>>
    /\ pc = "run"
    /\ msg_in = NoAttrib
    /\ msg_out = <<>>
    /\ ReportIdle

\* a testcase without failure child: "continue"
SkipTestcase ==
    /\ pc = "run"
    /\ si <= Len(Suites)
    /\ ti <= Len(Cases)
    /\ Find(Cases[ti].children, "failure") = <<>>
    /\ ti' = ti + 1
    /\ UNCHANGED <<doc, si, issues, pc, msg_in, msg_out>>
    /\ UNCHANGED reportVars

\* ListAppend with a fault: the Issue is put in front
ListAppend_Front(list, issue) == <<issue>> \o list

\* issues.append(issue)
ListAppend(list, issue) == Append(list, issue)

\* AppendIssue with a fault: curl_cmd is not re-initialised, so a command
\* captured for the testcase before stays when the testcase has none
AppendIssue_StateCarried ==
    /\ pc = "run"
    /\ si <= Len(Suites)
    /\ ti <= Len(Cases)
    /\ Find(Cases[ti].children, "failure") # <<>>
    /\ LET testsuite == Suites[si]
           tc == Cases[ti]
           failure == Find(tc.children, "failure")[1]
           issue == MakeIssue(AttribGet(testsuite.attrib, "name"),
                              AttribGet(tc.attrib, "name"),
                              AttribGet(tc.attrib, "time"),
                              failure.attrib)
       IN  issues' = ListAppend(issues,
                        [issue EXCEPT !.curl = IF issues # <<>> /\ @ = <<>>
                                               THEN issues[Len(issues)].curl ELSE @])
    /\ ti' = ti + 1
    /\ UNCHANGED <<doc, si, pc, msg_in, msg_out>>
    /\ UNCHANGED reportVars

\* a testcase with a failure child: its Issue is appended
AppendIssue ==
    /\ pc = "run"
    /\ si <= Len(Suites)
    /\ ti <= Len(Cases)
    /\ Find(Cases[ti].children, "failure") # <<>>
    /\ LET testsuite == Suites[si]
           tc == Cases[ti]
           failure == Find(tc.children, "failure")[1]
       IN  issues' = ListAppend(issues,
                                MakeIssue(AttribGet(testsuite.attrib, "name"),
                                          AttribGet(tc.attrib, "name"),
                                          AttribGet(tc.attrib, "time"),
                                          failure.attrib))
    /\ ti' = ti + 1
    /\ UNCHANGED <<doc, si, pc, msg_in, msg_out>>
    /\ UNCHANGED reportVars

\* the testcases of a suite are exhausted: on to the next testsuite
NextSuite ==
    /\ pc = "run"
    /\ si <= Len(Suites)
    /\ ti > Len(Cases)
    /\ si' = si + 1
    /\ ti' = 1
    /\ UNCHANGED <<doc, issues, pc, msg_in, msg_out>>
    /\ UNCHANGED reportVars

\* the testsuites are exhausted: "return issues"
Return ==
    /\ pc = "run"
    /\ si > Len(Suites)
    /\ pc' = "done"
    /\ UNCHANGED <<doc, si, ti, issues, msg_in, msg_out>>
    /\ UNCHANGED reportVars

Next == SkipTestcase \/ AppendIssue \/ NextSuite \/ Return

Spec == Init /\ [][Next]_vars

-----------------------------------------------------------------------------
(* The body of the testcase loop alone, on one failure element.            *)

InitMsg ==
    /\ doc = <<>>
    /\ si = 1
    /\ ti = 1
    /\ issues = <<>>
    /\ pc = "done"
    /\ IsFailureAttrib(msg_in)
    /\ msg_out = <<>>
    /\ ReportIdle

\* lines 60-114 applied to the failure element msg_in
ParseMessage ==
    /\ msg_out = <<>>
    /\ msg_out' = <<MakeIssue(<<>>, <<>>, <<>>, msg_in)>>
    /\ UNCHANGED <<doc, si, ti, issues, pc, msg_in>>
    /\ UNCHANGED reportVars

NextMsg == ParseMessage

SpecMsg == InitMsg /\ [][NextMsg]_vars

-----------------------------------------------------------------------------
(* extract_base_url alone, on a reproduction command and a suite name.     *)

\* the longest command and suite name together, counted in pieces of UrlPieces
MaxUrlPieces == 3

\* parse_junit is not running
ParseIdle ==
    /\ doc = <<>>
    /\ si = 1
    /\ ti = 1
    /\ issues = <<>>
    /\ pc = "done"
    /\ msg_in = NoAttrib
    /\ msg_out = <<>>

\* the fragments commands and suite names are built from
UrlPieces ==
    { <<"h", "t", "t", "p", ":", "/", "/">>,
      <<"h", "t", "t", "p", "s", ":", "/", "/", "a">>,
      <<"b">>,
      <<"/", "x">>,
      <<"?", "q", "#", "f">>,
      <<":", "8">>,
      <<"u", "@">>,
      <<"[">>,
      <<" ">> }

\* "curl -X GET https://a.test/x"
CurlX ==
    <<"c", "u", "r", "l", " ", "-", "X", " ", "G", "E", "T", " ", "h", "t",
      "t", "p", "s", ":", "/", "/", "a", ".", "t", "e", "s", "t", "/", "x">>

\* "curl https://a.test/y"
CurlY ==
    <<"c", "u", "r", "l", " ", "h", "t", "t", "p", "s", ":", "/", "/", "a",
      ".", "t", "e", "s", "t", "/", "y">>

\* "curl 'http://u:p@b.test:8/x?q#f' -H 'k: v'"
CurlQuoted ==
    <<"c", "u", "r", "l", " ", "'", "h", "t", "t", "p", ":", "/", "/", "u",
      ":", "p", "@", "b", ".", "t", "e", "s", "t", ":", "8", "/", "x", "?",
      "q", "#", "f", "'", " ", "-", "H", " ", "'", "k", ":", " ", "v", "'">>

\* a command whose first URL does not parse and whose second does:
\* "curl http://[::1/x https://a.test/x"
CurlBadFirst ==
    <<"c", "u", "r", "l", " ", "h", "t", "t", "p", ":", "/", "/", "[", ":",
      ":", "1", "/", "x", " ", "h", "t", "t", "p", "s", ":", "/", "/", "a",
      ".", "t", "e", "s", "t", "/", "x">>

\* a suite name that embeds a URL: "API http://b.test/v1 tests"
SuiteWithUrl ==
    <<"A", "P", "I", " ", "h", "t", "t", "p", ":", "/", "/", "b", ".", "t",
      "e", "s", "t", "/", "v", "1", " ", "t", "e", "s", "t", "s">>

\* whether text is a reproduction command parse_junit can capture: "", or a
\* trimmed line that starts with "curl "
IsCurlCmd(text) ==
    \/ text = <<>>
    \/ /\ StartsWith(text, CurlPrefix)
       /\ Strip(text) = text
       /\ \A i \in 1..Len(text) : text[i] \notin LineBreaks

\* the command made of pieces: "" of none, "curl " and the pieces otherwise
CurlOf(pieces) == IF pieces = <<>> THEN <<>> ELSE CurlPrefix \o Concat(pieces)

\* whether in is a pair of arguments of extract_base_url: the texts above, or
\* a command and a suite name of at most MaxUrlPieces pieces together
IsUrlInput(in) ==
    \/ \E c \in {<<>>, CurlX, CurlY, CurlQuoted, CurlBadFirst} :
           \E t \in {<<>>, SuiteWithUrl} :
               in = [curl_cmd |-> c, suite_name |-> t]
    \/ \E n \in 1..MaxUrlPieces : \E k \in 0..n :
           \E pieces \in [1..n -> UrlPieces] :
               /\ IsCurlCmd(CurlOf(SubSeq(pieces, 1, k)))
               /\ in = [curl_cmd |-> CurlOf(SubSeq(pieces, 1, k)),
                        suite_name |-> Concat(SubSeq(pieces, k + 1, n))]

InitUrl ==
    /\ ParseIdle
    /\ IsUrlInput(url_in)
    /\ url_out = <<>>
    /\ page = Idle
    /\ run = Idle
    /\ ui = Idle

\* the call extract_base_url(curl_cmd, suite_name)
CallExtractBaseUrl ==
    /\ url_in # Idle
    /\ url_out = <<>>
    /\ url_out' = <<extract_base_url(url_in.curl_cmd, url_in.suite_name)>>
    /\ UNCHANGED <<doc, si, ti, issues, pc, msg_in, msg_out, url_in, page, run, ui>>

NextUrl == CallExtractBaseUrl

SpecUrl == InitUrl /\ [][NextUrl]_vars

-----------------------------------------------------------------------------
(* make_html alone: the Issues are what parse_junit makes of test cases.  *)

MaxIssues == 3

CurlUserU == <<"c", "u", "r", "l", " ", "h", "t", "t", "p", "s", ":", "/", "/", "u",
      ":", "p", "@", "a", ".", "t", "e", "s", "t", "/", "x">>

CurlUserV == <<"c", "u", "r", "l", " ", "h", "t", "t", "p", "s", ":", "/", "/", "v",
      "@", "a", ".", "t", "e", "s", "t", "/", "y">>

CurlTrace == <<"c", "u", "r", "l", " ", "-", "X", " ", "T", "R", "A", "C", "E", " ",
      "'", "h", "t", "t", "p", ":", "/", "/", "b", ".", "t", "e", "s", "t",
      ":", "8", "/", "p", "?", "q", "#", "f", "'">>

CurlBracket == <<"c", "u", "r", "l", " ", "h", "t", "t", "p", ":", "/", "/", "[", ":",
      ":", "1", "/", "x">>

MarkupName == <<"<", "b", ">", " ", "&", " ", "'", " ", "\"">>

\* the test cases behind the Issues: suite, name, time, message
IssueCases ==
    { <<<<"A", "P", "I">>, <<"G", "E", "T", " ", "/", "u", "s", "e", "r", "s">>, <<"0", ".", "1", "2">>,
        <<"[", "5", "0", "0", "]", " ", "-", " ", "S", "e", "r", "v", "e",
          "r", " ", "e", "r", "r", "o", "r", "\n", "\n", "R", "e", "p",
          "r", "o", "d", "u", "c", "e", " ", "w", "i", "t", "h", ":", "\n",
          "\n">>
            \o CurlX>>,
      <<<<"A", "P", "I">>, <<"G", "E", "T", " ", "/", "i", "t", "e", "m", "s">>, <<"3", ".", "4">>,
        <<"[", "4", "9", "9", "]", " ", "-", " ", "N", "o", "t", " ", "f",
          "o", "u", "n", "d", "\n">> \o CurlY>>,
      <<SuiteWithUrl, MarkupName, <<"b", "a", "d">>,
        <<"[", "3", "9", "9", "]", " ", "R", "e", "j", "e", "c", "t", "e",
          "d", " ", "<", "t", "a", "g", ">", " ", "&", " ", "'", "q", "'">>>>,
      <<<<"A", "P", "I">>, <<"G", "E", "T", " ", "/", "a">>, <<"n", "a", "n">>,
        <<"[", "5", "9", "9", "]", "\n">> \o CurlUserU>>,
      <<<<"A", "P", "I">>, <<"G", "E", "T", " ", "/", "b">>, <<>>,
        <<"[", "6", "0", "0", "]", "\n">> \o CurlUserV>>,
      <<<<"A", "P", "I">>, <<"P", "U", "T", " ", "/", "p">>, <<"-", "1">>,
        <<"[", "4", "0", "0", "]", " ", "-", " ", "B", "a", "d", "\n">> \o CurlTrace>>,
      <<SuiteWithUrl, <<"G", "E", "T", " ", "/", "h">>, <<" ", ".", "5", " ">>,
        <<"[", "U+0665", "U+0660", "U+0660", "]", "\n">> \o CurlBracket>> }

\* the Issues parse_junit makes of them, and of a failure without attributes
IssuePool ==
    { MakeIssue(c[1], c[2], c[3], [message |-> c[4]]) : c \in IssueCases }
        \cup { MakeIssue(<<>>, <<>>, <<>>, NoAttrib) }

InitHtml ==
    /\ doc = <<>>
    /\ si = 1
    /\ ti = 1
    /\ pc = "done"
    /\ msg_in = <<>>
    /\ msg_out = <<>>
    /\ \E n \in 0..MaxIssues : issues \in [1..n -> IssuePool]
    /\ url_in = Idle
    /\ url_out = Idle
    /\ page = <<>>
    /\ run = Idle
    /\ ui = Idle

\* html = make_html(issues)
MakeHtml ==
    /\ pc = "done"
    /\ page = <<>>
    /\ page' = <<make_html(issues)>>
    /\ UNCHANGED <<doc, si, ti, issues, pc, msg_in, msg_out, url_in, url_out, run, ui>>

NextHtml == MakeHtml

SpecHtml == InitHtml /\ [][NextHtml]_vars

-----------------------------------------------------------------------------
(* main: parse_junit, make_html, write_text, print.  run holds the step    *)
(* main is at, what ET.parse will make of the input file, and the output   *)
(* file: "old", that of an earlier run, before the run, "partial" when a   *)
(* write failed after the file was opened, "written" when write_text       *)
(* returned.  The documents are those of one testsuite.                    *)

XmlKinds == {"wellformed", "malformed", "unreadable"}

InitMain ==
    /\ si = 1
    /\ ti = 1
    /\ issues = <<>>
    /\ pc = "call"
    /\ msg_in = NoAttrib
    /\ msg_out = <<>>
    /\ url_in = Idle
    /\ url_out = Idle
    /\ page = <<>>
    /\ ui = Idle
    /\ \E xml \in XmlKinds :
           /\ run = [step |-> "parse_junit", xml |-> xml, out_file |-> "old"]
           /\ IF xml = "wellformed"
              THEN \E m \in 0..MaxCases : \E kids \in [1..m -> SuiteChildren] :
                       doc = <<Element("testsuite", NoAttrib, kids)>>
              ELSE doc = <<>>

\* EtParse with a fault: a file that cannot be parsed is read as an empty
\* document
EtParse_Recovers ==
    /\ run # Idle
    /\ run.step = "parse_junit"
    /\ pc = "call"
    /\ pc' = "run"
    /\ UNCHANGED <<doc, si, ti, issues, msg_in, msg_out>>
    /\ UNCHANGED reportVars

\* line 47, tree = ET.parse(xml_path): the document, or the error that
\* leaves parse_junit and main
EtParse ==
    /\ run # Idle
    /\ run.step = "parse_junit"
    /\ pc = "call"
    /\ IF run.xml = "wellformed"
       THEN pc' = "run" /\ UNCHANGED run
       ELSE pc' = "raised" /\ run' = [run EXCEPT !.step = "raised"]
    /\ UNCHANGED <<doc, si, ti, issues, msg_in, msg_out, url_in, url_out, page, ui>>

\* line 1598, html = make_html(issues), once parse_junit has returned
MainMakeHtml ==
    /\ run # Idle
    /\ run.step = "parse_junit"
    /\ pc = "done"
    /\ page' = <<make_html(issues)>>
    /\ run' = [run EXCEPT !.step = "write_text"]
    /\ UNCHANGED <<doc, si, ti, issues, pc, msg_in, msg_out, url_in, url_out, ui>>

\* line 1601, out_path.write_text(html): the file is written, or it cannot
\* be opened and stays as it was, or the write fails after it was opened
MainWriteText ==
    /\ run # Idle
    /\ run.step = "write_text"
    /\ \/ run' = [run EXCEPT !.step = "print", !.out_file = "written"]
       \/ run' = [run EXCEPT !.step = "raised"]
       \/ run' = [run EXCEPT !.step = "raised", !.out_file = "partial"]
    /\ UNCHANGED <<doc, si, ti, issues, pc, msg_in, msg_out, url_in, url_out, page, ui>>

\* line 1602, print: the line is printed, or the encoding of the standard
\* output cannot hold it
MainPrint ==
    /\ run # Idle
    /\ run.step = "print"
    /\ \/ run' = [run EXCEPT !.step = "exit"]
       \/ run' = [run EXCEPT !.step = "raised"]
    /\ UNCHANGED <<doc, si, ti, issues, pc, msg_in, msg_out, url_in, url_out, page, ui>>

NextMain ==
    \/ EtParse
    \/ SkipTestcase
    \/ AppendIssue
    \/ NextSuite
    \/ Return
    \/ MainMakeHtml
    \/ MainWriteText
    \/ MainPrint

SpecMain == InitMain /\ [][NextMain]_vars

-----------------------------------------------------------------------------
(* The script of the page: parseCurlCommand, executeModalCurl and          *)
(* executeCurlFromDetails, lines 1233-1514.                                *)

\* the upper-case form of each lower-case letter
UpperOf == [c \in LowerSet |-> UpperCase[CHOOSE i \in 1..26 : LowerCase[i] = c]]

UpperChar(c) == IF c \in LowerSet THEN UpperOf[c] ELSE c

\* String.prototype.toUpperCase()
toUpperCase(str) == [i \in 1..Len(str) |-> UpperChar(str[i])]

Quotes == {"\"", "'"}

\* replace(/\\\n/g, ' '): a backslash and the line feed after it become a space
ReplaceContinuations(str) ==
    Concat([i \in 1..Len(str) |->
               IF str[i] = "\\" /\ i < Len(str) /\ str[i + 1] = "\n" THEN <<" ">>
               ELSE IF str[i] = "\n" /\ i > 1 /\ str[i - 1] = "\\" THEN <<>>
               ELSE <<str[i]>>])

\* replace(/\s+/g, ' '): a run of whitespace becomes one space
ReplaceSpaces(str) ==
    Concat([i \in 1..Len(str) |->
               IF ~IsSpace(str[i]) THEN <<str[i]>>
               ELSE IF i > 1 /\ IsSpace(str[i - 1]) THEN <<>>
               ELSE <<" ">>])

\* replace(/^["']|["']$/g, ''): a quote at the start and a quote at the end
\* are taken off
StripQuotes(str) ==
    LET first == IF str # <<>> /\ str[1] \in Quotes THEN 2 ELSE 1
        last == IF Len(str) >= first /\ str[Len(str)] \in Quotes
                THEN Len(str) - 1 ELSE Len(str)
    IN  SubSeq(str, first, last)

\* tokens.push(current.trim()) when current.trim() is not empty
PushToken(tokens, current) ==
    IF Strip(current) # <<>> THEN Append(tokens, Strip(current)) ELSE tokens

\* lines 1238-1262: the loop over the characters of curlStr from index i on
\* (counted from 1), and the push after it
RECURSIVE Tokenize(_, _, _, _, _)
Tokenize(curlStr, i, tokens, current, quoteChar) ==
    IF i > Len(curlStr) THEN PushToken(tokens, current)
    ELSE LET char == curlStr[i]
             inQuotes == quoteChar # ""
             quote == char \in Quotes /\ curlStr[i - 1] # "\\"
         IN  IF quote /\ ~inQuotes
             THEN Tokenize(curlStr, i + 1, tokens, current, char)
             ELSE IF quote /\ char = quoteChar
             THEN Tokenize(curlStr, i + 1, tokens, current, "")
             ELSE IF char = " " /\ ~inQuotes
             THEN Tokenize(curlStr, i + 1, PushToken(tokens, current), <<>>, quoteChar)
             ELSE Tokenize(curlStr, i + 1, tokens, Append(current, char), quoteChar)

\* token.match(/^https?:\/\//)
MatchesUrl(token) == OccursAt(token, HttpPrefix, 1) \/ OccursAt(token, HttpsPrefix, 1)

\* lines 1264-1284: the loop over the tokens from index i on (counted from 1)
RECURSIVE ReadTokens(_, _, _)
ReadTokens(tokens, i, result) ==
    IF i > Len(tokens) THEN result
    ELSE LET token == tokens[i]
             next == IF i + 1 <= Len(tokens) THEN <<tokens[i + 1]>> ELSE <<>>
         IN  IF token \in {<<"-", "X">>, <<"-", "-", "r", "e", "q", "u", "e", "s", "t">>}
             THEN ReadTokens(tokens, i + 2,
                             [result EXCEPT !.method =
                                 StripQuotes(IF next # <<>> THEN next[1]
                                             ELSE <<"G", "E", "T">>)])
             ELSE IF token \in {<<"-", "H">>, <<"-", "-", "h", "e", "a", "d", "e", "r">>,
                                <<"-", "d">>, <<"-", "-", "d", "a", "t", "a">>,
                                <<"-", "-", "d", "a", "t", "a", "-", "r", "a", "w">>,
                                <<"-", "-", "d", "a", "t", "a", "-", "b", "i", "n", "a", "r", "y">>}
             THEN ReadTokens(tokens, i + 2, result)
             ELSE IF MatchesUrl(token)
             THEN ReadTokens(tokens, i + 1, [result EXCEPT !.url = StripQuotes(token)])
             ELSE ReadTokens(tokens, i + 1, result)

\* parseCurlCommand(curlStr): <<result>>, or <<>> for null.  Of the result
\* the method and the url are kept; headers and body only take their token.
parseCurlCommand(curlStr) ==
    LET str == ReplaceSpaces(ReplaceContinuations(Strip(curlStr)))
        result == ReadTokens(Tokenize(str, 6, <<>>, <<>>, ""), 1,
                             [method |-> <<"G", "E", "T">>, url |-> <<>>])
    IN  IF ~StartsWith(str, CurlPrefix) THEN <<>>
        ELSE IF result.url # <<>> THEN <<result>> ELSE <<>>

\* ['TRACE', 'CONNECT', 'TRACK']
unsupportedMethods ==
    {<<"T", "R", "A", "C", "E">>, <<"C", "O", "N", "N", "E", "C", "T">>,
     <<"T", "R", "A", "C", "K">>}

\* IsUnsupported with a fault: the method is compared as it is written
IsUnsupported_CaseSensitive(method) == method \in unsupportedMethods

\* unsupportedMethods.indexOf(parsed.method.toUpperCase()) !== -1
IsUnsupported(method) == toUpperCase(method) \in unsupportedMethods

\* executeModalCurl and executeCurlFromDetails up to the call of fetch, on
\* the text curlStr of the element that shows the command (<<>> when the
\* element is missing or empty): what the page is like afterwards
ExecuteCurl(state, curlStr) ==
    IF curlStr = <<>>
    THEN [state EXCEPT !.ran = TRUE,
                       !.toast = IF state.source = "modal" \/ state.element
                                 THEN "no curl command" ELSE state.toast]
    ELSE IF parseCurlCommand(curlStr) = <<>>
    THEN [state EXCEPT !.ran = TRUE, !.toast = "curl command not parsed"]
    ELSE IF IsUnsupported(parseCurlCommand(curlStr)[1].method)
    THEN [state EXCEPT !.ran = TRUE, !.disabled = FALSE, !.label = "Execute curl",
                       !.shown = TRUE, !.result = "method not supported"]
    ELSE [state EXCEPT !.ran = TRUE, !.disabled = TRUE, !.label = "Running...",
                       !.shown = TRUE, !.result = "running", !.fetched = TRUE,
                       !.pending = TRUE, !.inflight = @ + 1]

MaxUiPieces == 3

\* what reproduction commands are built of
UiPieces ==
    { <<"-", "X">>,
      <<"-", "-", "r", "e", "q", "u", "e", "s", "t">>,
      <<"T", "R", "A", "C", "E">>,
      <<"t", "r", "a", "c", "e">>,
      <<"\"", "C", "o", "n", "n", "e", "c", "t", "\"">>,
      <<"T", "r", "A", "c", "K">>,
      <<"-", "X", "T", "R", "A", "C", "E">>,
      <<"h", "t", "t", "p", "s", ":", "/", "/", "a", ".", "t", "e", "s",
        "t", "/", "x">>,
      <<"-", "H">> }

\* "curl" and the pieces, a space before each
UiCommand(pieces) ==
    <<"c", "u", "r", "l">> \o Concat([i \in 1..Len(pieces) |-> <<" ">> \o pieces[i]])

\* the page with the modal or a details row open on a command: the command,
\* where it is executed from, whether the element that shows it exists,
\* whether the execute button is disabled, the toast and the result shown,
\* whether a fetch was issued, whether one is under way, the label of the
\* execute button, the number of requests whose handlers have not run, and
\* whether the element of the result is displayed
InitUi ==
    /\ doc = <<>>
    /\ si = 1
    /\ ti = 1
    /\ issues = <<>>
    /\ pc = "done"
    /\ msg_in = <<>>
    /\ msg_out = <<>>
    /\ url_in = Idle
    /\ url_out = Idle
    /\ page = <<>>
    /\ run = Idle
    /\ \E source \in {"modal", "details"} :
           \E n \in 0..MaxUiPieces : \E pieces \in [1..n -> UiPieces] :
               ui = [source |-> source,
                     curl |-> IF n = 0 THEN <<>> ELSE UiCommand(pieces),
                     element |-> n > 0 \/ source = "modal",
                     ran |-> FALSE, disabled |-> FALSE, toast |-> "", result |-> "",
                     fetched |-> FALSE, pending |-> FALSE,
                     label |-> "Execute curl", inflight |-> 0, shown |-> FALSE]

\* a click on the execute button of the modal
executeModalCurl ==
    /\ ui # Idle
    /\ ui.source = "modal"
    /\ ~ui.disabled
    /\ ui' = ExecuteCurl(ui, ui.curl)
    /\ UNCHANGED <<doc, si, ti, issues, pc, msg_in, msg_out, url_in, url_out, page, run>>

\* a click on the execute button of a details row
executeCurlFromDetails ==
    /\ ui # Idle
    /\ ui.source = "details"
    /\ ~ui.disabled
    /\ ui' = ExecuteCurl(ui, ui.curl)
    /\ UNCHANGED <<doc, si, ti, issues, pc, msg_in, msg_out, url_in, url_out, page, run>>

\* FetchSettles with a fault: the handler of a rejected fetch leaves the
\* button as it is
FetchSettles_ErrorLeavesButton ==
    /\ ui # Idle
    /\ ui.inflight > 0
    /\ \/ \E shown \in {"response", "status text as body"} :
              ui' = [ui EXCEPT !.inflight = @ - 1, !.pending = ui.inflight > 1,
                               !.disabled = FALSE, !.label = "Execute curl",
                               !.result = shown]
       \/ ui' = [ui EXCEPT !.inflight = @ - 1, !.pending = ui.inflight > 1,
                           !.result = "request failed"]
    /\ UNCHANGED <<doc, si, ti, issues, pc, msg_in, msg_out, url_in, url_out, page, run>>

\* the handlers of the promise of fetch: the response is shown with its body,
\* or with its status text when the body cannot be read, or the error of a
\* rejected fetch is shown; in each case the button is enabled and gets its
\* label back
FetchSettles ==
    /\ ui # Idle
    /\ ui.inflight > 0
    /\ \E shown \in {"response", "status text as body", "request failed"} :
           ui' = [ui EXCEPT !.inflight = @ - 1, !.pending = ui.inflight > 1,
                           !.disabled = FALSE, !.label = "Execute curl",
                           !.result = shown]
    /\ UNCHANGED <<doc, si, ti, issues, pc, msg_in, msg_out, url_in, url_out, page, run>>

NextUi == executeModalCurl \/ executeCurlFromDetails \/ FetchSettles

SpecUi == InitUi /\ [][NextUi]_vars

\* the same with the promise of every fetch settling in the end
SpecUiSettles == SpecUi /\ WF_vars(FetchSettles)

-----------------------------------------------------------------------------
(* The script of the page: filters, details rows and the theme, lines      *)
(* 1090-1151 and 1551-1570, on a page made of a few Issues.  The state of   *)
(* the page is held in ui; what the script reads of the generated text are  *)
(* operators of issues.                                                     *)

\* the most rows of the page
MaxRows == 2

\* the decimal digits of a natural number, as characters
RECURSIVE DecimalChars(_)
DecimalChars(n) ==
    LET digit == <<"0", "1", "2", "3", "4", "5", "6", "7", "8", "9">>[(n % 10) + 1]
    IN  IF n < 10 THEN <<digit>> ELSE Append(DecimalChars(n \div 10), digit)

\* parseInt(text): <<the number>> that the leading ASCII digits make, <<>>
\* for NaN when the text starts with none (no text here has space or sign)
parseInt(text) ==
    LET stops == {i \in 1..(Len(text) + 1) : i = Len(text) + 1 \/ text[i] \notin AsciiDigits}
        digits == SubSeq(text, 1, SetMin(stops) - 1)
    IN  IF digits = <<>> THEN <<>> ELSE <<int(digits)>>

\* the character references html.escape writes
CharRefs ==
    { <<<<"&", "a", "m", "p", ";">>, "&">>,
      <<<<"&", "l", "t", ";">>, "<">>,
      <<<<"&", "g", "t", ";">>, ">">>,
      <<<<"&", "q", "u", "o", "t", ";">>, "\"">>,
      <<<<"&", "#", "x", "2", "7", ";">>, "'">> }

\* what the HTML parser makes of the characters of an attribute value or of
\* a text node from index i on: each character reference becomes its character
RECURSIVE DecodeFrom(_, _)
DecodeFrom(chars, i) ==
    IF i > Len(chars) THEN <<>>
    ELSE LET refs == {r \in CharRefs :
                          /\ i + Len(r[1]) - 1 <= Len(chars)
                          /\ SubSeq(chars, i, i + Len(r[1]) - 1) = r[1]}
         IN  IF refs = {} THEN <<chars[i]>> \o DecodeFrom(chars, i + 1)
             ELSE LET r == CHOOSE r \in refs : TRUE
                  IN  <<r[2]>> \o DecodeFrom(chars, i + Len(r[1]))

Decode(chars) == DecodeFrom(chars, 1)

\* element.getAttribute: the value written after the stretch opener of the
\* start tag, decoded
getAttribute(tag, opener) ==
    LET at == CHOOSE i \in 1..Len(tag) : tag[i] = [kind |-> "lit", text |-> opener]
        stop == SetMin({j \in (at + 1)..(Len(tag) + 1) :
                            j = Len(tag) + 1 \/ tag[j].kind # "attr"})
    IN  Decode([k \in 1..(stop - at - 1) |-> tag[at + k].text])

\* the start tag of the main row of Issue idx, and that of its details row
MainRowTag(idx) == MainRowStart(idx, issues[idx])

DetailsRowTag(idx) == DetailsRowStart(idx, issues[idx])

\* parseFloat(row.getAttribute('data-time')) || 0: the attribute is the text
\* Fixed6 wrote, which parseFloat reads back to the float it was made from,
\* and "nan" to NaN, which || turns into 0
RowTime(idx) ==
    LET f == TimeFloat(issues[idx].time)
    IN  IF f.nan THEN Float(0) ELSE f

\* the text of the badge of a status
PillText(status) ==
    IF isdigit(status) /\ \/ 500 <= int(status) /\ int(status) < 600
                          \/ 400 <= int(status) /\ int(status) < 500
                          \/ 200 <= int(status) /\ int(status) < 300
    THEN DecimalChars(int(status)) ELSE <<"n", "/", "a">>

\* row.innerText.toLowerCase(): the texts of the cells of the main row
RowText(idx) ==
    LET issue == issues[idx]
    IN  Lower(DecimalChars(idx) \o <<"\t">> \o PillText(issue.status) \o <<"\t">>
                  \o Decode(escape(issue.endpoint, TRUE)) \o <<"\t">>
                  \o Decode(escape(issue.time, TRUE)) \o <<"\t">>
                  \o Decode(escape(issue.msg_short, TRUE))
                  \o (IF issue.kind # <<>>
                      THEN <<"\n">> \o Decode(escape(issue.kind, TRUE)) ELSE <<>>))

\* line 1091: the value the page writes for minTimeValue
MinTime == MinTimeOf(issues)

MaxTime == MaxTimeOf(issues)

\* line 1091 reads "var minTimeValue = nan;" when min_time is not a number:
\* "nan" names nothing, the statement raises ReferenceError and the script
\* ends there.  Its functions exist all the same (declarations are hoisted)
\* and currentFilter is set, but minTimeValue stays undefined and the
\* listener of lines 1567-1570 is never registered.
ScriptRan == ~MinTime.nan

\* the values the slider can take: its ends and the middle; without valid
\* min, max, step and value attributes it ranges from 0 to 100 and starts at 50
SliderStops ==
    IF ScriptRan
    THEN {MinTime, Float((MinTime.milli + MaxTime.milli) \div 2), MaxTime}
    ELSE {Float(0), Float(50000), Float(100000)}

SliderDefault == IF ScriptRan THEN MinTime ELSE Float(50000)

\* what can be typed into the search box
SearchTexts == {<<>>, <<"/", "U", "S", "E", "R", "S">>, <<"z", "z">>}

\* the values localStorage may hold for 'theme': none, or a text
StoredThemes == {"null", "light", "dark", "blue"}

\* the times of the test cases behind the rows of the page
PageTimes == {<<"0", ".", "1", "2">>, <<"3", ".", "4">>, <<"n", "a", "n">>, <<>>}

PagePool ==
    { MakeIssue(c[1], c[2], c[3], [message |-> c[4]]) :
          c \in {c \in IssueCases : c[3] \in PageTimes} }

\* the page as the browser has built it: the script has run to its end or
\* to its error, DOMContentLoaded is yet to come
FreshPage(stored) ==
    [currentFilter |-> "all", active |-> "all", search |-> <<>>,
     slider |-> SliderDefault, timeValue |-> MinTime,
     shown |-> [k \in 1..Len(issues) |-> TRUE],
     details |-> [k \in 1..Len(issues) |-> FALSE],
     storage |-> stored, light |-> FALSE, themeLabel |-> "Dark", loaded |-> FALSE]

\* a page of at most MaxRows rows is open, nothing else is going on
PageOpen ==
    /\ doc = <<>>
    /\ si = 1
    /\ ti = 1
    /\ pc = "done"
    /\ msg_in = <<>>
    /\ msg_out = <<>>
    /\ \E n \in 0..MaxRows : issues \in [1..n -> PagePool]
    /\ url_in = Idle
    /\ url_out = Idle
    /\ page = <<>>
    /\ run = Idle

InitPage == PageOpen /\ ui = FreshPage("null")

\* whether the main row of Issue idx passes the filters of state
RowMatches(state, idx) ==
    LET status == getAttribute(MainRowTag(idx), "' data-status='")
        endpoint == getAttribute(MainRowTag(idx), "' data-endpoint='")
        text == RowText(idx)
        search == Lower(state.search)
        code == parseInt(status)
        matchFilter ==
            CASE state.currentFilter = "5xx" ->
                     status # <<>> /\ code # <<>> /\ code[1] >= 500 /\ code[1] < 600
              [] state.currentFilter = "4xx" ->
                     status # <<>> /\ code # <<>> /\ code[1] >= 400 /\ code[1] < 500
              [] OTHER -> TRUE
        matchSearch == search = <<>> \/ Contains(endpoint, search) \/ Contains(text, search)
        matchTime == ~FloatLess(RowTime(idx), state.slider)
    IN  matchFilter /\ matchSearch /\ matchTime

\* applyFilters with a fault: the details row of a hidden row is left alone
applyFilters_DetailsLeft(state) ==
    [state EXCEPT !.shown = [k \in 1..Len(issues) |-> RowMatches(state, k)]]

\* lines 1119-1143: each main row is displayed or hidden, and the details row
\* of a hidden one is hidden
applyFilters(state) ==
    LET show == [k \in 1..Len(issues) |-> RowMatches(state, k)]
    IN  [state EXCEPT !.shown = show,
                      !.details = [k \in 1..Len(issues) |-> state.details[k] /\ show[k]]]

\* applyTheme(theme)
applyTheme(state, theme) ==
    [state EXCEPT !.light = (theme = "light"), !.storage = theme,
                  !.themeLabel = IF theme = "light" THEN "Dark" ELSE "Light"]

\* localStorage.getItem('theme') || 'dark'
StoredOrDark(state) == IF state.storage = "null" THEN "dark" ELSE state.storage

PageFrame == UNCHANGED <<doc, si, ti, issues, pc, msg_in, msg_out, url_in, url_out, page, run>>

OnPage == pc = "done" /\ ui # Idle

\* a click on the logo.  Where the script ended at line 1091, minTimeValue is
\* undefined: the slider falls back to its default and line 1103 raises
\* TypeError, before applyFilters
resetFilters ==
    /\ OnPage
    /\ ui' = IF ScriptRan
             THEN applyFilters([ui EXCEPT !.currentFilter = "all", !.active = "all",
                                          !.search = <<>>, !.slider = MinTime,
                                          !.timeValue = MinTime])
             ELSE [ui EXCEPT !.currentFilter = "all", !.active = "all",
                             !.search = <<>>, !.slider = Float(50000)]
    /\ PageFrame

\* a click on one of the three filter buttons
setFilter ==
    /\ OnPage
    /\ \E mode \in {"all", "5xx", "4xx"} :
           ui' = applyFilters([ui EXCEPT !.currentFilter = mode, !.active = mode])
    /\ PageFrame

\* the slider is moved
updateTimeFilter ==
    /\ OnPage
    /\ \E value \in SliderStops :
           ui' = applyFilters([ui EXCEPT !.slider = value, !.timeValue = value])
    /\ PageFrame

\* the text of the search box is changed
applySearch ==
    /\ OnPage
    /\ \E typed \in SearchTexts : ui' = applyFilters([ui EXCEPT !.search = typed])
    /\ PageFrame

\* a click on a main row, which a hidden row cannot receive but the function
\* tests all the same
toggleDetails ==
    /\ OnPage
    /\ \E idx \in 1..Len(issues) :
           ui' = IF ~ui.shown[idx] THEN ui
                 ELSE [ui EXCEPT !.details[idx] = ~@]
    /\ PageFrame

\* a click on the theme button
toggleTheme ==
    /\ OnPage
    /\ ui' = applyTheme(ui, IF StoredOrDark(ui) = "light" THEN "dark" ELSE "light")
    /\ PageFrame

\* the document has been parsed: the listener of lines 1567-1570 runs, when
\* the script got as far as registering it
DOMContentLoaded ==
    /\ OnPage
    /\ ~ui.loaded
    /\ ui' = IF ScriptRan THEN [applyTheme(ui, StoredOrDark(ui)) EXCEPT !.loaded = TRUE]
             ELSE [ui EXCEPT !.loaded = TRUE]
    /\ PageFrame

\* the page is loaded again: all is as at first but the storage
Reload ==
    /\ OnPage
    /\ ui.loaded
    /\ ui' = FreshPage(ui.storage)
    /\ PageFrame

\* the filters and the details rows
NextPage ==
    resetFilters \/ setFilter \/ updateTimeFilter \/ applySearch \/ toggleDetails

SpecPage == InitPage /\ [][NextPage]_vars

\* the theme, which shares no variable of the script with the filters
InitTheme == PageOpen /\ \E stored \in StoredThemes : ui = FreshPage(stored)

NextTheme == toggleTheme \/ DOMContentLoaded \/ Reload

SpecTheme == InitTheme /\ [][NextTheme]_vars

-----------------------------------------------------------------------------
(* The modal of the page: its markup, lines 1058-1088, and                 *)
(* openModalFromDetails, executeModalCurl, closeModal and the handlers of   *)
(* fetch, lines 1152-1221, 1287-1400 and 1515-1522.  The page has one       *)
(* modal; the element of the result, modal-curl-result, lies inside         *)
(* modal-curl-section and both lie inside modal-backdrop.                   *)

\* the times of the test cases behind the rows of the page with the modal
ModalTimes ==
    {<<"0", ".", "1", "2">>, <<"b", "a", "d">>, <<"-", "1">>, <<" ", ".", "5", " ">>}

ModalPool ==
    { MakeIssue(c[1], c[2], c[3], [message |-> c[4]]) :
          c \in {c \in IssueCases : c[3] \in ModalTimes} }
        \cup { MakeIssue(<<>>, <<>>, <<>>, NoAttrib) }

\* text joined into a string that is assigned to innerHTML: the HTML parser
\* reads it as markup
RawHtml(chars) == [i \in 1..Len(chars) |-> [kind |-> "html", text |-> chars[i]]]

\* text assigned to textContent: it becomes one text node as it is
Plain(chars) == [i \in 1..Len(chars) |-> [kind |-> "plain", text |-> chars[i]]]

\* lines 1157-1162: what openModalFromDetails reads of the details row
DetailsData(idx) ==
    LET detailsRow == DetailsRowTag(idx)
    IN  [status |-> getAttribute(detailsRow, "' style='display:none;' data-status='"),
         endpoint |-> getAttribute(detailsRow, "' data-endpoint='"),
         time |-> getAttribute(detailsRow, "' data-time='"),
         suite |-> getAttribute(detailsRow, "' data-suite='"),
         kind |-> getAttribute(detailsRow, "' data-kind='"),
         curl |-> getAttribute(detailsRow, "' data-curl='")]

\* lines 1169-1183: statusHtml
statusHtml(status) ==
    LET code == parseInt(status)
        Within(low, high) == code # <<>> /\ low <= code[1] /\ code[1] < high
    IN  IF status # <<>>
        THEN IF Within(500, 600)
             THEN Lit("<span class=\"pill pill-5xx\">") \o RawHtml(status) \o Lit("</span>")
             ELSE IF Within(400, 500)
             THEN Lit("<span class=\"pill pill-4xx\">") \o RawHtml(status) \o Lit("</span>")
             ELSE IF Within(200, 300)
             THEN Lit("<span class=\"pill pill-2xx\">") \o RawHtml(status) \o Lit("</span>")
             ELSE Lit("<span class=\"pill pill-unk\">") \o RawHtml(status) \o Lit("</span>")
        ELSE Lit("<span class=\"pill pill-unk\">n/a</span>")

\* lines 1185-1205: the string assigned to infoGrid.innerHTML
infoGrid(idx) ==
    LET data == DetailsData(idx)
        Card(label, value) ==
            Lit("<div class=\"modal-info-card\">")
                \o Lit("<div class=\"modal-info-label\">") \o Label(label) \o Lit("</div>")
                \o value \o Lit("</div>") \o Lit("</div>")
    IN  Card("HTTP status",
             Lit("<div class=\"modal-info-value\">") \o statusHtml(data.status))
        \o Card("Endpoint",
                Lit("<div class=\"modal-info-value endpoint\">")
                    \o (IF data.endpoint # <<>> THEN RawHtml(data.endpoint) ELSE Label("dash")))
        \o Card("Run time",
                Lit("<div class=\"modal-info-value\">")
                    \o (IF data.time # <<>> THEN RawHtml(data.time) \o Lit("s")
                        ELSE Label("dash")))
        \o Card("Test Suite",
                Lit("<div class=\"modal-info-value\">")
                    \o (IF data.suite # <<>> THEN RawHtml(data.suite) ELSE Label("dash")))
        \o (IF data.kind # <<>>
            THEN Card("Kind of error",
                      Lit("<div class=\"modal-info-value\">") \o RawHtml(data.kind))
            ELSE <<>>)

\* lines 1164-1165 and 1208: the text of the pre element of the details row,
\* assigned to the textContent of modal-error-message
errorMessage(idx) == Plain(Decode(escape(issues[idx].msg, FALSE)))

\* the page with its modal: the fields of the page of InitUi, and whether
\* modal-backdrop is displayed, the Issue the modal was last filled for
\* (0: none yet), whether modal-curl-section is displayed, and the Issue
\* whose command the request was made for that the elements of the result
\* speak of (0: none yet).  The text of modal-curl-command is curl.
InitModal ==
    /\ doc = <<>>
    /\ si = 1
    /\ ti = 1
    /\ pc = "done"
    /\ msg_in = <<>>
    /\ msg_out = <<>>
    /\ \E n \in 0..MaxRows : issues \in [1..n -> ModalPool]
    /\ url_in = Idle
    /\ url_out = Idle
    /\ page = <<>>
    /\ run = Idle
    /\ ui = [source |-> "modal", curl |-> <<>>, element |-> TRUE,
             ran |-> FALSE, disabled |-> FALSE, toast |-> "", result |-> "",
             fetched |-> FALSE, pending |-> FALSE,
             label |-> "Execute curl", inflight |-> 0, shown |-> FALSE,
             open |-> FALSE, idx |-> 0, section |-> FALSE, resultOf |-> 0]

\* lines 1152-1221: a click on the button of the details row of Issue idx.
\* The button can be clicked while the modal is open too: the backdrop
\* covers the page for the pointer only, the buttons of the rows keep the
\* keyboard focus and answer to Enter.  The elements of the result are left
\* as they are.
openModalFromDetails(idx) ==
    /\ ui # Idle
    /\ idx \in 1..Len(issues)
    /\ LET curl == DetailsData(idx).curl
       IN  ui' = [ui EXCEPT !.open = TRUE, !.idx = idx,
                            !.curl = IF curl # <<>> THEN curl ELSE @,
                            !.section = curl # <<>>]
    /\ UNCHANGED <<doc, si, ti, issues, pc, msg_in, msg_out, url_in, url_out, page, run>>

\* a click on the execute button of the open modal: executeModalCurl, lines
\* 1287-1400, on the command the modal holds.  The button lies in
\* modal-curl-section and cannot be clicked unless that is displayed.
ModalExecute ==
    /\ ui # Idle
    /\ ui.open
    /\ ui.section
    /\ ~ui.disabled
    /\ LET parsed == ui.curl # <<>> /\ parseCurlCommand(ui.curl) # <<>>
       IN  ui' = [ExecuteCurl(ui, ui.curl) EXCEPT
                      !.resultOf = IF parsed THEN ui.idx ELSE @]
    /\ UNCHANGED <<doc, si, ti, issues, pc, msg_in, msg_out, url_in, url_out, page, run>>

\* lines 1515-1522: closeModal, also called by backdropClick
closeModal ==
    /\ ui # Idle
    /\ ui.open
    /\ ui' = [ui EXCEPT !.open = FALSE, !.shown = FALSE]
    /\ UNCHANGED <<doc, si, ti, issues, pc, msg_in, msg_out, url_in, url_out, page, run>>

NextModal ==
    \/ \E idx \in 1..MaxRows : openModalFromDetails(idx)
    \/ ModalExecute
    \/ closeModal
    \/ FetchSettles

SpecModal == InitModal /\ [][NextModal]_vars

-----------------------------------------------------------------------------
(* What the claims speak of.                                               *)

\* the Issue of the message-level run has been built
Parsed == msg_out # <<>>

\* that Issue
Out == msg_out[1]

\* the message attribute of the failure element, "" when it has none
MessageAttr == IF "message" \in DOMAIN msg_in THEN msg_in["message"] ELSE <<>>

\* the trimmed raw message
Raw ==
    LET nonblank == {i \in 1..Len(MessageAttr) : MessageAttr[i] \notin Whitespace}
    IN  IF nonblank = {} THEN <<>>
        ELSE SubSeq(MessageAttr, SetMin(nonblank), SetMax(nonblank))

\* the trimmed form of a line
Trimmed(line) ==
    LET nonblank == {i \in 1..Len(line) : line[i] \notin Whitespace}
    IN  IF nonblank = {} THEN <<>>
        ELSE SubSeq(line, SetMin(nonblank), SetMax(nonblank))

\* the trimmed line starts, case-insensitively, with "reproduce with"
StartsWithMarker(line) ==
    LET t == Trimmed(line)
    IN  /\ Len(t) >= Len(ReproduceWith)
        /\ \A i \in 1..Len(ReproduceWith) : LowerChar(t[i]) = ReproduceWith[i]

\* the trimmed line starts with "curl "
StartsWithCurl(line) ==
    LET t == Trimmed(line)
    IN  /\ Len(t) >= Len(CurlPrefix)
        /\ \A i \in 1..Len(CurlPrefix) : t[i] = CurlPrefix[i]

\* the lines the stripping pass retains, joined and trimmed
Retained == Trimmed(JoinLines(StripPass(Raw).clean_lines))

\* "[", three decimal digits, "]" at index i of s
GroupAt(s, i) ==
    /\ i >= 1 /\ i + 4 <= Len(s)
    /\ s[i] = "[" /\ s[i + 4] = "]"
    /\ \A k \in (i + 1)..(i + 3) : s[k] \in AsciiDigits \cup ArabicIndicDigits

\* the index of the first bracketed three-digit group of s, 0 if it has none
FirstGroup(s) ==
    LET at == {i \in 1..Len(s) : GroupAt(s, i)}
    IN  IF at = {} THEN 0 ELSE SetMin(at)

Text404 == <<"4", "0", "4">>

-----------------------------------------------------------------------------
(* C1 *)

\* C1, as stated: the message of an Issue contains neither the captured
\* reproduction command nor a line whose trimmed form starts,
\* case-insensitively, with "reproduce with".
C1_Original ==
    Parsed =>
        /\ Out.curl # <<>> => ~Contains(Out.msg, Out.curl)
        /\ \A k \in 1..Len(SplitLines(Out.msg)) :
               ~StartsWithMarker(SplitLines(Out.msg)[k])

\* C1, amended: when the stripping pass retains some non-blank text, no line
\* of the message has a trimmed form that starts with "curl " (so no line is
\* the reproduction command) or, case-insensitively, with "reproduce with";
\* when the pass retains nothing the message is the whole raw message.
C1_MessageFreeOfReproduction ==
    Parsed =>
        /\ Retained # <<>> =>
               \A k \in 1..Len(SplitLines(Out.msg)) :
                   LET line == SplitLines(Out.msg)[k]
                   IN  /\ ~StartsWithMarker(line)
                       /\ ~StartsWithCurl(line)
                       /\ Out.curl # <<>> => Trimmed(line) # Out.curl
        /\ Retained = <<>> => Out.msg = Raw

\* a marker line and a curl line were stripped from a message that kept text
C1_Witness ==
    /\ Parsed
    /\ Retained # <<>>
    /\ Out.curl # <<>>
    /\ \E k \in 1..Len(SplitLines(Raw)) : StartsWithMarker(SplitLines(Raw)[k])
    /\ Out.msg # Raw

-----------------------------------------------------------------------------
(* C2 *)

\* the places <<i, j>> of the testcase elements with a failure child inside
\* the testsuite children of the root
FailedPlaces ==
    {p \in (1..Len(doc)) \X (1..MaxCases + 1) :
        /\ doc[p[1]].tag = "testsuite"
        /\ p[2] <= Len(doc[p[1]].children)
        /\ doc[p[1]].children[p[2]].tag = "testcase"
        /\ \E k \in 1..Len(doc[p[1]].children[p[2]].children) :
               doc[p[1]].children[p[2]].children[k].tag = "failure"}

\* C2: parse_junit returns exactly one Issue per testcase that has a failure
\* child, and none for a testcase without one.
C2_OneIssuePerFailedTestcase ==
    pc = "done" => Len(issues) = Cardinality(FailedPlaces)

\* a run over a document with a passing and a failed testcase has returned
C2_Witness ==
    /\ pc = "done"
    /\ Len(issues) >= 1
    /\ \E i \in 1..Len(doc) : \E j \in 1..Len(doc[i].children) :
           /\ doc[i].tag = "testsuite"
           /\ doc[i].children[j].tag = "testcase"
           /\ <<i, j>> \notin FailedPlaces

-----------------------------------------------------------------------------
(* C3 *)

\* place p comes before place q in document order
Before(p, q) == p[1] < q[1] \/ (p[1] = q[1] /\ p[2] < q[2])

\* the failed testcase that k - 1 failed testcases precede in document order
PlaceOfRank(k) ==
    CHOOSE p \in FailedPlaces :
        Cardinality({q \in FailedPlaces : Before(q, p)}) = k - 1

\* C3: the Issues come in document order: the k-th Issue is the one of the
\* k-th failed testcase, suites in their order and testcases in theirs.
C3_DocumentOrder ==
    pc = "done" =>
        /\ Len(issues) = Cardinality(FailedPlaces)
        /\ \A k \in 1..Len(issues) :
               LET p == PlaceOfRank(k)
                   testsuite == doc[p[1]]
                   tc == testsuite.children[p[2]]
               IN  /\ issues[k].suite =
                          (IF "name" \in DOMAIN testsuite.attrib
                           THEN testsuite.attrib["name"] ELSE <<>>)
                   /\ issues[k].endpoint =
                          (IF "name" \in DOMAIN tc.attrib
                           THEN tc.attrib["name"] ELSE <<>>)

\* two failed testcases of different names in different suites were reported
C3_Witness ==
    /\ pc = "done"
    /\ Len(issues) = 2
    /\ issues[1].suite # issues[2].suite
    /\ issues[1].endpoint # issues[2].endpoint

-----------------------------------------------------------------------------
(* C4 *)

\* C4, as stated: a failure message that contains "[404]" anywhere has
\* status_code "404".
C4_Original ==
    Parsed /\ (\E i \in 1..Len(Raw) : GroupAt(Raw, i) /\ SubSeq(Raw, i + 1, i + 3) = Text404)
        => Out.status = Text404

\* C4, amended: a failure message whose first bracketed three-digit group is
\* "[404]" has status_code "404".
C4_First404 ==
    Parsed /\ FirstGroup(Raw) # 0
           /\ SubSeq(Raw, FirstGroup(Raw) + 1, FirstGroup(Raw) + 3) = Text404
        => Out.status = Text404

\* "[404]" is the first group of a message that holds another group after it
C4_Witness ==
    /\ Parsed
    /\ Out.status = Text404
    /\ \E i \in 1..Len(Raw) :
           /\ GroupAt(Raw, i)
           /\ i > FirstGroup(Raw)
           /\ SubSeq(Raw, i + 1, i + 3) # Text404

-----------------------------------------------------------------------------
(* C5 *)

\* C5: status_code is the empty string or exactly three ASCII digits.
C5_StatusAsciiDigits ==
    Parsed =>
        \/ Out.status = <<>>
        \/ /\ Len(Out.status) = 3
           /\ \A k \in 1..3 : Out.status[k] \in AsciiDigits
\* a message whose status occurs in non-ASCII digits was parsed
C5_Witness ==
    /\ Parsed
    /\ Len(Out.status) = 3
    /\ \E k \in 1..3 : Out.status[k] \notin AsciiDigits

-----------------------------------------------------------------------------
(* C6 *)

\* C6: status_code is taken from the whole trimmed raw message: the three
\* digits of its first bracketed three-digit group, empty when it has none,
\* whichever lines the stripping pass removes.
C6_StatusFromRaw ==
    Parsed =>
        IF FirstGroup(Raw) = 0
        THEN Out.status = <<>>
        ELSE Out.status = SubSeq(Raw, FirstGroup(Raw) + 1, FirstGroup(Raw) + 3)

\* the status comes from a group that the stripping pass removed from the
\* message together with its curl line
C6_Witness ==
    /\ Parsed
    /\ Out.status # <<>>
    /\ Out.curl # <<>>
    /\ FirstGroup(Out.curl) # 0
    /\ FirstGroup(Out.msg) = 0

-----------------------------------------------------------------------------
(* C7 *)

\* the indices of s where "- " is followed by a character of the same line,
\* a line ending at "\n" or "\r"
KindMarkers(s) ==
    {i \in 1..(Len(s) - 2) :
        s[i] = "-" /\ s[i + 1] = " " /\ s[i + 2] \notin {"\n", "\r"}}

\* the last index of the line of s that holds index i
EndOfLine(s, i) ==
    SetMax({j \in i..Len(s) : \A k \in i..j : s[k] \notin {"\n", "\r"}})

\* C7: kind is the trimmed text from the first "- " that has a further
\* character on its line up to the end of that line, and empty when the raw
\* message has no such "- ".
C7_KindAfterFirstMarker ==
    Parsed =>
        IF KindMarkers(Raw) = {}
        THEN Out.kind = <<>>
        ELSE LET i == SetMin(KindMarkers(Raw))
             IN  Out.kind = Trimmed(SubSeq(Raw, i + 2, EndOfLine(Raw, i + 2)))

\* a "- " that ends its line is passed over for a later one, whose line goes on
C7_Witness ==
    /\ Parsed
    /\ Out.kind # <<>>
    /\ \E i \in 1..(Len(Raw) - 2) :
           /\ Raw[i] = "-" /\ Raw[i + 1] = " " /\ Raw[i + 2] \in {"\n", "\r"}
           /\ i < SetMin(KindMarkers(Raw))
    /\ EndOfLine(Raw, SetMin(KindMarkers(Raw))) < Len(Raw)
    /\ Out.kind = NotAServerError

-----------------------------------------------------------------------------
(* C8 *)

\* the lines of the raw message whose trimmed form starts with "curl "
CurlLines ==
    Ascending(Len(SplitLines(Raw)),
              {k \in 1..Len(SplitLines(Raw)) : StartsWithCurl(SplitLines(Raw)[k])})

\* reproduction_command is the trimmed first curl line, empty without one
FirstCurlCaptured ==
    IF CurlLines = <<>>
    THEN Out.curl = <<>>
    ELSE Out.curl = Trimmed(SplitLines(Raw)[CurlLines[1]])

\* C8, as stated: reproduction_command is the trimmed first line that starts
\* with "curl ", marker or not, and every line that starts with "curl " is
\* removed from the message.
C8_Original ==
    Parsed =>
        /\ FirstCurlCaptured
        /\ \A k \in 1..Len(SplitLines(Out.msg)) :
               ~StartsWithCurl(SplitLines(Out.msg)[k])

\* C8, amended: reproduction_command is the trimmed first line that starts
\* with "curl ", marker or not; every line that starts with "curl " is
\* removed from the message unless the stripping pass retains nothing, and
\* then the message is the whole raw message, its curl lines included.
C8_FirstCurlLine ==
    Parsed =>
        /\ FirstCurlCaptured
        /\ IF Retained # <<>>
           THEN \A k \in 1..Len(SplitLines(Out.msg)) :
                    ~StartsWithCurl(SplitLines(Out.msg)[k])
           ELSE Out.msg = Raw

\* two different curl lines and no marker: the first was captured and text
\* was retained
C8_Witness ==
    /\ Parsed
    /\ Len(CurlLines) >= 2
    /\ Trimmed(SplitLines(Raw)[CurlLines[2]]) # Out.curl
    /\ \A k \in 1..Len(SplitLines(Raw)) : ~StartsWithMarker(SplitLines(Raw)[k])
    /\ Retained # <<>>

-----------------------------------------------------------------------------
(* C9 *)

\* C9: when the retained lines, joined and trimmed, are empty, the message is
\* the trimmed raw message; so the message is empty only if that is empty.
C9_FallbackToRaw ==
    Parsed =>
        /\ Retained = <<>> => Out.msg = Raw
        /\ Out.msg = <<>> => Raw = <<>>

\* everything was stripped from a message that was not empty
C9_Witness ==
    /\ Parsed
    /\ Retained = <<>>
    /\ Raw # <<>>
    /\ Out.msg = Raw

-----------------------------------------------------------------------------
(* C10 *)

\* the indices of the characters of s that are not whitespace
Inked(s) == Ascending(Len(s), {i \in 1..Len(s) : s[i] \notin Whitespace})

\* short is s with each run of whitespace replaced by one space and the
\* whitespace at both ends removed: the same characters other than
\* whitespace, a single space in short exactly where whitespace parts two of
\* them in s, and no other whitespace in short
IsCollapsed(s, short) ==
    /\ Len(Inked(s)) = Len(Inked(short))
    /\ \A k \in 1..Len(Inked(s)) :
           /\ s[Inked(s)[k]] = short[Inked(short)[k]]
           /\ Inked(short)[k] = (IF k = 1 THEN 1
                                 ELSE IF Inked(s)[k] = Inked(s)[k - 1] + 1
                                 THEN Inked(short)[k - 1] + 1
                                 ELSE Inked(short)[k - 1] + 2)
    /\ \A i \in 1..Len(short) : short[i] \in Whitespace => short[i] = " "
    /\ short # <<>> => Inked(short)[Len(Inked(short))] = Len(short)

\* C10, as stated: when the message has at most 180 characters,
\* message_short equals the message.
C10_Original ==
    Parsed /\ Len(Out.msg) <= 180 => Out.msg_short = Out.msg

\* C10, amended: when the message has at most 180 characters, message_short
\* is the message with each run of whitespace replaced by a single space; it
\* equals the message when the message holds no whitespace but single spaces.
C10_ShortIsCollapsedMessage ==
    Parsed /\ Len(Out.msg) <= 180 =>
        /\ IsCollapsed(Out.msg, Out.msg_short)
        /\ IsCollapsed(Out.msg, Out.msg) => Out.msg_short = Out.msg

\* a message of exactly 180 characters with a line break in it was shortened
C10_Witness ==
    /\ Parsed
    /\ Len(Out.msg) = 180
    /\ \E i \in 1..Len(Out.msg) : Out.msg[i] = "\n"
    /\ Out.msg_short # Out.msg
    /\ Ellipsis \notin {Out.msg_short[i] : i \in 1..Len(Out.msg_short)}

-----------------------------------------------------------------------------
(* C11 *)

\* message_short is not the whole collapsed message: text was elided
Truncated == Parsed /\ Out.msg_short # Collapse(Out.msg)

\* the last character of a text is an ellipsis
EndsWithEllipsis(s) == s # <<>> /\ s[Len(s)] = Ellipsis

\* C11, as stated: message_short has at most 180 characters, and when
\* truncation occurred it ends with exactly one ellipsis character.
C11_Original ==
    Parsed =>
        /\ Len(Out.msg_short) <= 180
        /\ Truncated =>
               /\ EndsWithEllipsis(Out.msg_short)
               /\ ~EndsWithEllipsis(SubSeq(Out.msg_short, 1, Len(Out.msg_short) - 1))

\* C11, amended: message_short has at most 180 characters, and when
\* truncation occurred it is a beginning of the collapsed message followed by
\* one ellipsis; the text before that ellipsis may end in an ellipsis that the
\* message itself holds.
C11_ShortWithinWidth ==
    Parsed =>
        /\ Len(Out.msg_short) <= 180
        /\ Truncated =>
               /\ EndsWithEllipsis(Out.msg_short)
               /\ Len(Out.msg_short) - 1 < Len(Collapse(Out.msg))
               /\ SubSeq(Out.msg_short, 1, Len(Out.msg_short) - 1)
                      = SubSeq(Collapse(Out.msg), 1, Len(Out.msg_short) - 1)

\* a message longer than the width was cut after some of its text
C11_Witness ==
    /\ Truncated
    /\ Len(Out.msg) > 180
    /\ Len(Out.msg_short) > 1
    /\ EndsWithEllipsis(Out.msg_short)

-----------------------------------------------------------------------------
(* C12 *)

\* extract_base_url has returned
UrlDone == url_out # <<>>

\* what it returned
BaseUrl == url_out[1]

\* the indices of text where an http or https URL starts
UrlsIn(text) == {i \in 1..Len(text) : UrlPrefixAt(text, i) > 0}

\* the URL at index i of text parses
ParsesAt(text, i) == ~urlparse(UrlGroup(text, i)).raised

\* text holds a URL that parses
HasParsingUrl(text) == \E i \in UrlsIn(text) : ParsesAt(text, i)

\* the first URL of text parses
FirstUrlParses(text) == UrlsIn(text) # {} /\ ParsesAt(text, SetMin(UrlsIn(text)))

\* the scheme and netloc of the URL at index i of text
BaseAt(text, i) ==
    LET parsed == urlparse(UrlGroup(text, i))
    IN  parsed.scheme \o <<":", "/", "/">> \o parsed.netloc

\* C12, as stated: when the command contains a URL that parses, the result
\* comes from that URL whatever the suite name; only when the command yields
\* nothing the suite name is searched in the same way; when both yield
\* nothing the result is empty.
C12_Original ==
    UrlDone =>
        /\ HasParsingUrl(url_in.curl_cmd) =>
               \E i \in UrlsIn(url_in.curl_cmd) :
                   /\ ParsesAt(url_in.curl_cmd, i)
                   /\ BaseUrl = BaseAt(url_in.curl_cmd, i)
        /\ ~HasParsingUrl(url_in.curl_cmd) /\ HasParsingUrl(url_in.suite_name) =>
               \E i \in UrlsIn(url_in.suite_name) :
                   /\ ParsesAt(url_in.suite_name, i)
                   /\ BaseUrl = BaseAt(url_in.suite_name, i)
        /\ ~HasParsingUrl(url_in.curl_cmd) /\ ~HasParsingUrl(url_in.suite_name) =>
               BaseUrl = <<>>

\* C12, amended: when the first URL of the command parses, the result comes
\* from that URL whatever the suite name; otherwise, when the first URL of
\* the suite name parses, the result comes from that one; otherwise the
\* result is empty.  URLs after the first of a text are never looked at.
C12_CommandPreferred ==
    UrlDone =>
        /\ FirstUrlParses(url_in.curl_cmd) =>
               BaseUrl = BaseAt(url_in.curl_cmd, SetMin(UrlsIn(url_in.curl_cmd)))
        /\ ~FirstUrlParses(url_in.curl_cmd) /\ FirstUrlParses(url_in.suite_name) =>
               BaseUrl = BaseAt(url_in.suite_name, SetMin(UrlsIn(url_in.suite_name)))
        /\ ~FirstUrlParses(url_in.curl_cmd) /\ ~FirstUrlParses(url_in.suite_name) =>
               BaseUrl = <<>>

\* the command and the suite name both hold a URL that parses, of different
\* hosts, and the result is the one of the command
C12_Witness ==
    /\ UrlDone
    /\ FirstUrlParses(url_in.curl_cmd)
    /\ FirstUrlParses(url_in.suite_name)
    /\ BaseAt(url_in.curl_cmd, SetMin(UrlsIn(url_in.curl_cmd)))
           # BaseAt(url_in.suite_name, SetMin(UrlsIn(url_in.suite_name)))
    /\ BaseUrl = BaseAt(url_in.curl_cmd, SetMin(UrlsIn(url_in.curl_cmd)))

-----------------------------------------------------------------------------
(* C13 *)

\* the URL the result was taken from
FoundUrl ==
    IF FirstUrlParses(url_in.curl_cmd)
    THEN UrlGroup(url_in.curl_cmd, SetMin(UrlsIn(url_in.curl_cmd)))
    ELSE UrlGroup(url_in.suite_name, SetMin(UrlsIn(url_in.suite_name)))

\* scheme://host[:port] of a URL: its "http://" or "https://", and of the
\* text after it up to the first "/", "?" or "#" what follows the last "@"
SchemeHostPort(url) ==
    LET prefix == IF StartsWith(url, HttpsPrefix) THEN HttpsPrefix ELSE HttpPrefix
        ends == {j \in (Len(prefix) + 1)..Len(url) : url[j] \in {"/", "?", "#"}}
        last == IF ends = {} THEN Len(url) ELSE SetMin(ends) - 1
        ats == {j \in (Len(prefix) + 1)..last : url[j] = "@"}
        first == IF ats = {} THEN Len(prefix) + 1 ELSE SetMax(ats) + 1
    IN  prefix \o SubSeq(url, first, last)

\* C13: whenever a URL is found, the result is exactly scheme://host[:port]
\* of that URL, nothing else of the URL being part of it.
C13_SchemeHostPortOnly ==
    UrlDone /\ BaseUrl # <<>> => BaseUrl = SchemeHostPort(FoundUrl)

\* the result holds the user name of the URL it was taken from
C13_Witness ==
    /\ UrlDone
    /\ BaseUrl # <<>>
    /\ \E i \in 1..Len(BaseUrl) : BaseUrl[i] = "@"
    /\ BaseUrl # SchemeHostPort(FoundUrl)

-----------------------------------------------------------------------------
(* C14 *)

\* make_html has returned
PageDone == page # <<>>

\* what make_html computed
Page == page[1]

\* the URL the command of the Issue of number i points at, <<>> without one
PointsAt(i) ==
    IF FirstUrlParses(issues[i].curl)
    THEN UrlGroup(issues[i].curl, SetMin(UrlsIn(issues[i].curl)))
    ELSE <<>>

\* how often url occurs in base_urls
Occurrences(url) ==
    Cardinality({k \in 1..Len(Page.base_urls) : Page.base_urls[k] = url})

\* base_urls has no empty string and ascends strictly, so has no duplicates
BaseUrlsSortedSet ==
    /\ \A k \in 1..Len(Page.base_urls) : Page.base_urls[k] # <<>>
    /\ \A j, k \in 1..Len(Page.base_urls) :
           j < k => StrLess(Page.base_urls[j], Page.base_urls[k])

\* C14: base_urls has no duplicates and no empty string and ascends, and two
\* Issues whose commands point at different paths of the same scheme and
\* host contribute that scheme://host[:port] exactly once.
C14_BaseUrlsOnce ==
    PageDone =>
        /\ BaseUrlsSortedSet
        /\ \A i, j \in 1..Len(issues) :
               /\ PointsAt(i) # <<>>
               /\ PointsAt(j) # <<>>
               /\ PointsAt(i) # PointsAt(j)
               /\ SchemeHostPort(PointsAt(i)) = SchemeHostPort(PointsAt(j))
               => Occurrences(SchemeHostPort(PointsAt(i))) = 1

\* two commands point at different paths of one scheme and host, and
\* base_urls holds two entries for them, neither the scheme and host
C14_Witness ==
    /\ PageDone
    /\ BaseUrlsSortedSet
    /\ \E i, j \in 1..Len(issues) :
           /\ PointsAt(i) # <<>>
           /\ PointsAt(j) # <<>>
           /\ PointsAt(i) # PointsAt(j)
           /\ SchemeHostPort(PointsAt(i)) = SchemeHostPort(PointsAt(j))
           /\ Occurrences(SchemeHostPort(PointsAt(i))) = 0
           /\ Len(Page.base_urls) = 2

-----------------------------------------------------------------------------
(* C15 *)

\* the time of the Issue of number i parses as a number
ParsesAsNumber(i) ==
    float(issues[i].time) # <<>> /\ ~float(issues[i].time)[1].nan

\* the numbers the times of the Issues parse as, in thousandths
Numbers ==
    {float(issues[i].time)[1].milli : i \in {k \in 1..Len(issues) : ParsesAsNumber(k)}}

\* C15: min_time and max_time are the least and the greatest of the times
\* that parse as a number, a time that does not parse influencing neither;
\* without such a time min_time is 0.0 and max_time is 1.0.
C15_TimeBounds ==
    PageDone =>
        IF Numbers = {}
        THEN Page.min_time = Float(0) /\ Page.max_time = Float(1000)
        ELSE /\ Page.min_time = Float(SetMin(Numbers))
             /\ Page.max_time = Float(SetMax(Numbers))

\* the first time is "nan", later times are numbers, and both bounds are
\* not-a-number
C15_Witness ==
    /\ PageDone
    /\ Len(issues) >= 2
    /\ issues[1].time = <<"n", "a", "n">>
    /\ Numbers # {}
    /\ Page.min_time = NaN
    /\ Page.max_time = NaN

-----------------------------------------------------------------------------
(* C16 *)

\* status_code is all digits and its value is in [low, high)
StatusWithin(i, low, high) ==
    /\ issues[i].status # <<>>
    /\ \A k \in 1..Len(issues[i].status) : IsDigit(issues[i].status[k])
    /\ low <= int(issues[i].status)
    /\ int(issues[i].status) < high

\* C16: total is the number of Issues, total_5xx (total_4xx) the number of
\* Issues whose status_code is all digits with a value in [500,600)
\* ([400,500)); an empty status_code is counted in neither.
C16_Counts ==
    PageDone =>
        /\ Page.total = Len(issues)
        /\ Page.total_5xx =
               Cardinality({i \in 1..Len(issues) : StatusWithin(i, 500, 600)})
        /\ Page.total_4xx =
               Cardinality({i \in 1..Len(issues) : StatusWithin(i, 400, 500)})
        /\ Page.total_5xx + Page.total_4xx
               <= Cardinality({i \in 1..Len(issues) : issues[i].status # <<>>})

\* three Issues of status_code "600", "599" and "", of which one is counted
C16_Witness ==
    /\ PageDone
    /\ \E i, j, k \in 1..Len(issues) :
           /\ issues[i].status = <<"6", "0", "0">>
           /\ issues[j].status = <<"5", "9", "9">>
           /\ issues[k].status = <<>>
    /\ Page.total = 3
    /\ Page.total_5xx = 1
    /\ Page.total_4xx = 0


-----------------------------------------------------------------------------
(* C19 *)

\* the tokens of the page
Html == Page.html

\* the places of the page where the template opens a main row
MainRows ==
    {k \in 1..Len(Html) : Html[k] = [kind |-> "lit", text |-> "<tr class='main-row "]}

\* the places of the page where the template opens a details row
DetailsRows ==
    {k \in 1..Len(Html) :
        Html[k] = [kind |-> "lit", text |-> "<tr class='details-row' id='details-"]}

\* the main rows whose data-idx is i
MainRowsOf(i) ==
    {k \in MainRows :
        /\ Html[k + 2] = [kind |-> "lit", text |-> "' data-idx='"]
        /\ Html[k + 3] = [kind |-> "lit", text |-> ToString(i)]
        /\ Html[k + 4] = [kind |-> "lit", text |-> "' data-status='"]}

\* the details rows whose id is details-i
DetailsRowsOf(i) ==
    {k \in DetailsRows :
        /\ Html[k + 1] = [kind |-> "lit", text |-> ToString(i)]
        /\ Html[k + 2].kind = "lit"}

\* the details row at place k is not displayed
Hidden(k) ==
    Html[k + 2] = [kind |-> "lit", text |-> "' style='display:none;' data-status='"]

\* the places where a row ends
RowEnds ==
    {k \in 1..Len(Html) : Html[k].kind = "lit" /\ Html[k].text \in {"</tr>", "</td></tr>"}}

\* no character of a value ends the attribute or opens the element it is in
ValuesStayInPlace ==
    \A k \in 1..Len(Html) :
        /\ Html[k].kind = "attr" => Html[k].text # "'"
        /\ Html[k].kind = "text" => Html[k].text # "<"

\* C19: for the i-th Issue the page has exactly one main row with data-idx i
\* and exactly one details row with id details-i, the second following the
\* first with no row between them and the rows of the Issues following each
\* other in the order of the Issues; the page has no other main or details
\* row, and every details row is not displayed.
C19_RowPairs ==
    PageDone =>
        LET main == MainRows
            details == DetailsRows
            rows == main \cup details
            ends == RowEnds
            mainOf == [i \in 1..Len(issues) |-> MainRowsOf(i)]
            detailsOf == [i \in 1..Len(issues) |-> DetailsRowsOf(i)]
        IN  /\ Cardinality(main) = Len(issues)
            /\ Cardinality(details) = Len(issues)
            /\ ValuesStayInPlace
            /\ \A k \in details : Hidden(k)
            /\ \A i \in 1..Len(issues) :
                   /\ Cardinality(mainOf[i]) = 1
                   /\ Cardinality(detailsOf[i]) = 1
                   /\ \A m \in mainOf[i], d \in detailsOf[i] :
                          /\ m < d
                          /\ \A k \in rows : ~(m < k /\ k < d)
                          /\ Cardinality({k \in ends : m < k /\ k < d}) = 1
                          /\ i < Len(issues) =>
                                 \A n \in mainOf[i + 1] :
                                     /\ d < n
                                     /\ \A k \in rows : ~(d < k /\ k < n)
                                     /\ Cardinality({k \in ends : d < k /\ k < n}) = 1

\* a page of three Issues, one whose name holds markup and one whose command
\* holds quotes, with the three pairs of rows
C19_Witness ==
    /\ PageDone
    /\ Len(issues) = 3
    /\ \E i \in 1..3 : issues[i].endpoint = MarkupName
    /\ \E i \in 1..3 : issues[i].curl = CurlTrace
    /\ \A i \in 1..3 : MainRowsOf(i) # {} /\ DetailsRowsOf(i) # {}
    /\ \A k \in DetailsRows : Hidden(k)


-----------------------------------------------------------------------------
(* C18 *)

\* the first failure child of the testcase at place p
FailureAt(p) ==
    LET kids == doc[p[1]].children[p[2]].children
    IN  kids[SetMin({k \in 1..Len(kids) : kids[k].tag = "failure"})]

\* C18: an attribute that is missing is read as the empty text and the run
\* goes on to its end: every failed testcase yields its Issue, of an empty endpoint
\* when the testcase has no name, of an empty time when it has no time, and
\* of empty msg, msg_short, status, kind and curl when its failure element
\* has no message.
C18_MissingAttributesAreEmpty ==
    pc = "done" =>
        /\ Len(issues) = Cardinality(FailedPlaces)
        /\ \A k \in 1..Len(issues) :
               LET p == PlaceOfRank(k)
                   tc == doc[p[1]].children[p[2]]
               IN  /\ "name" \notin DOMAIN doc[p[1]].attrib => issues[k].suite = <<>>
                   /\ "name" \notin DOMAIN tc.attrib => issues[k].endpoint = <<>>
                   /\ "time" \notin DOMAIN tc.attrib => issues[k].time = <<>>
                   /\ "message" \notin DOMAIN FailureAt(p).attrib =>
                          /\ issues[k].msg = <<>>
                          /\ issues[k].msg_short = <<>>
                          /\ issues[k].status = <<>>
                          /\ issues[k].kind = <<>>
                          /\ issues[k].curl = <<>>

\* the run has returned the Issue of a testcase without name and time whose
\* failure element has no message, the fields named all empty
C18_Witness ==
    /\ pc = "done"
    /\ \E k \in 1..Len(issues) :
           LET p == PlaceOfRank(k)
               tc == doc[p[1]].children[p[2]]
           IN  /\ DOMAIN tc.attrib = {}
               /\ DOMAIN FailureAt(p).attrib = {}
               /\ issues[k].endpoint = <<>>
               /\ issues[k].time = <<>>
               /\ issues[k].msg = <<>>
               /\ issues[k].msg_short = <<>>
               /\ issues[k].status = <<>>
               /\ issues[k].kind = <<>>
               /\ issues[k].curl = <<>>


-----------------------------------------------------------------------------
(* C17 *)

\* C17: when the input cannot be parsed the run ends with the error at
\* parse_junit: make_html is not called and the output file is never opened,
\* it stays as it was.
C17_NoOutputOnParseFailure ==
    run # Idle /\ run.xml # "wellformed" =>
        /\ run.out_file = "old"
        /\ run.step \in {"parse_junit", "raised"}
        /\ page = <<>>
        /\ issues = <<>>
        /\ pc \in {"call", "raised"}

\* the input was malformed, the run has ended with the error, and the output
\* file of an earlier run is as it was
C17_Witness ==
    /\ run # Idle
    /\ run.xml = "malformed"
    /\ run.step = "raised"
    /\ pc = "raised"
    /\ run.out_file = "old"


-----------------------------------------------------------------------------
(* C20 *)

\* the page reads from the command a request of one of the three methods
ReadsUnsupportedMethod ==
    /\ ui # Idle
    /\ parseCurlCommand(ui.curl) # <<>>
    /\ \E m \in unsupportedMethods :
           toUpperCase(parseCurlCommand(ui.curl)[1].method) = m

-----------------------------------------------------------------------------
(* C22 *)

\* the lines of the trimmed raw message
RawLines == SplitLines(Raw)

\* a line that is empty once trimmed
IsBlank(line) == Trimmed(line) = <<>>

\* a marker line comes before line i
MarkerBefore(i) == \E j \in 1..(i - 1) : StartsWithMarker(RawLines[j])

\* the lines that are neither marker lines nor curl lines, less the blank
\* lines that come after a marker line, in their order
KeptLines ==
    LET kept == Ascending(Len(RawLines), {i \in 1..Len(RawLines) :
                    /\ ~StartsWithMarker(RawLines[i])
                    /\ ~StartsWithCurl(RawLines[i])
                    /\ ~(IsBlank(RawLines[i]) /\ MarkerBefore(i))})
    IN  [k \in 1..Len(kept) |-> RawLines[kept[k]]]

\* C22: a blank line of the message is discarded by the pass exactly when a
\* "reproduce with" marker line comes before it, however far before and
\* whatever lies between: the message is made of the lines that are neither
\* marker nor curl lines less the blank lines after the first marker, joined
\* and trimmed (the raw message when nothing is left); without a marker no
\* blank line is discarded.
C22_BlankLinesAfterMarker ==
    Parsed =>
        /\ StripPass(Raw).clean_lines = KeptLines
        /\ Out.msg = IF Trimmed(JoinLines(KeptLines)) = <<>> THEN Raw
                     ELSE Trimmed(JoinLines(KeptLines))

\* a message with a blank line before the marker, which is kept, and a blank
\* line after the marker and after a kept line, which is discarded
C22_Witness ==
    /\ Parsed
    /\ \E i, j, k \in 1..Len(RawLines) :
           /\ i < j /\ j < k - 1
           /\ IsBlank(RawLines[i]) /\ StartsWithMarker(RawLines[j])
           /\ ~IsBlank(RawLines[k - 1]) /\ IsBlank(RawLines[k])
    /\ \E k \in 1..Len(SplitLines(Out.msg)) : IsBlank(SplitLines(Out.msg)[k])
    /\ Len(SplitLines(Out.msg)) = Len(RawLines) - 2

-----------------------------------------------------------------------------
(* C23 *)

\* the marker lines of the raw message
MarkerLines == {i \in 1..Len(RawLines) : StartsWithMarker(RawLines[i])}

\* the first part of C23: the pass sets seen_reproduce when there is a marker
\* line, keeps no marker line, and captures a command only from a line that
\* is not a marker line
MarkerLinesDiscarded ==
    LET st == StripPass(Raw)
    IN  /\ st.seen_reproduce <=> MarkerLines # {}
        /\ \A k \in 1..Len(st.clean_lines) : ~StartsWithMarker(st.clean_lines[k])
        /\ Out.curl = st.curl_cmd
        /\ Out.curl # <<>> =>
               \E i \in 1..Len(RawLines) :
                   /\ i \notin MarkerLines
                   /\ StartsWithCurl(RawLines[i])
                   /\ Out.curl = Trimmed(RawLines[i])

\* C23, as stated: every marker line sets seen_reproduce and is discarded in
\* full: a command that shares the marker's line is neither captured as
\* reproduction_command nor kept in message.
C23_Original ==
    Parsed =>
        /\ MarkerLinesDiscarded
        /\ \A k \in 1..Len(SplitLines(Out.msg)) :
               ~StartsWithMarker(SplitLines(Out.msg)[k])

\* C23, amended: every marker line sets seen_reproduce and is discarded in
\* full by the pass, a command on the marker's line is not captured, and when
\* the pass retains some non-blank text no line of message is a marker line;
\* when the pass retains nothing, message is the raw message, marker lines
\* and what follows the marker on them included.
C23_MarkerLineDiscarded ==
    Parsed =>
        /\ MarkerLinesDiscarded
        /\ Retained # <<>> =>
               \A k \in 1..Len(SplitLines(Out.msg)) :
                   ~StartsWithMarker(SplitLines(Out.msg)[k])
        /\ Retained = <<>> => Out.msg = Raw

\* a marker line that holds a curl command, in a message that kept text: no
\* command is captured and the message has lost the line
C23_Witness ==
    /\ Parsed
    /\ Retained # <<>>
    /\ \E i \in MarkerLines : Contains(RawLines[i], CurlPrefix)
    /\ Out.curl = <<>>
    /\ ~Contains(Out.msg, CurlPrefix)

-----------------------------------------------------------------------------
(* C24 *)

\* the Issue of the failed testcase at place p, read from that testcase and
\* the testsuite around it alone
IssueAt(p) ==
    LET testsuite == doc[p[1]]
        tc == testsuite.children[p[2]]
        failure == Find(tc.children, "failure")[1]
    IN  MakeIssue(AttribGet(testsuite.attrib, "name"), AttribGet(tc.attrib, "name"),
                  AttribGet(tc.attrib, "time"), failure.attrib)

\* C24: every field of the k-th Issue parse_junit returns is what its own
\* testcase and the testsuite around it give with the stripping state
\* initialised afresh, whatever testcases come before or after it.
C24_IssuesIndependent ==
    pc = "done" =>
        /\ Len(issues) <= Cardinality(FailedPlaces)
        /\ \A k \in 1..Len(issues) : issues[k] = IssueAt(PlaceOfRank(k))

\* a failure with a marker and a command was reported, then one without
\* message: the second Issue has no command and an empty message
C24_Witness ==
    /\ pc = "done"
    /\ Len(issues) = 2
    /\ issues[1].curl # <<>>
    /\ StripPass(Find(doc[PlaceOfRank(1)[1]].children[PlaceOfRank(1)[2]].children,
                       "failure")[1].attrib["message"]).seen_reproduce
    /\ issues[2].curl = <<>>
    /\ issues[2].msg = <<>>

-----------------------------------------------------------------------------
(* C27 *)

\* C27: the execute button, of the modal or of a details row, is disabled
\* exactly while a request of its own is in flight, of which there is one at
\* most; while enabled it bears its original label; and when the fetch
\* settles, whatever the outcome, the button is enabled again with that label.
C27_ButtonFollowsRequest ==
    /\ [](/\ ui.disabled <=> ui.inflight > 0
          /\ ui.inflight <= 1
          /\ ui.pending <=> ui.inflight > 0
          /\ ~ui.disabled <=> ui.label = "Execute curl")
    /\ [](ui.disabled => <>(~ui.disabled /\ ui.inflight = 0 /\ ui.label = "Execute curl"))

\* a request was sent, its response came but its body could not be read, and
\* the button is enabled again under its original label
C27_Witness ==
    /\ ui.ran
    /\ ui.fetched
    /\ ui.result = "status text as body"
    /\ ui.inflight = 0
    /\ ~ui.disabled
    /\ ui.label = "Execute curl"

-----------------------------------------------------------------------------
(* C21 *)

\* C21: once the page has loaded, the root element has class 'light' exactly
\* when the stored theme is 'light'; each toggleTheme on the loaded page
\* switches the theme on display, and stores it; and loading the page
\* displays the theme that was stored, and leaves a stored theme as it is.
C21_ThemePersisted ==
    [][/\ ui'.loaded => (ui'.light <=> ui'.storage = "light")
       /\ toggleTheme /\ ui.loaded =>
              /\ ui'.light = ~ui.light
              /\ ui'.storage = IF ui'.light THEN "light" ELSE "dark"
       /\ DOMContentLoaded =>
              /\ ui'.light <=> ui.storage = "light"
              /\ ui.storage \in {"light", "dark"} => ui'.storage = ui.storage]_vars

\* the page of a report whose first time is "nan" has loaded with 'light' in
\* the storage, and displays the dark theme
C21_Witness ==
    /\ ui # Idle
    /\ issues # <<>>
    /\ issues[1].time = <<"n", "a", "n">>
    /\ ui.loaded
    /\ ui.storage = "light"
    /\ ~ui.light

\* where the script runs to its end the theme is persisted: 'light' was
\* stored, the page was loaded again, and it displays the light theme
ThemeRestored ==
    /\ ui # Idle
    /\ ScriptRan
    /\ ui.loaded
    /\ ui.storage = "light"
    /\ ui.light

-----------------------------------------------------------------------------
(* C25 *)

\* C25: whatever the filters were, after resetFilters the status mode is
\* 'all', the search text is empty, the time threshold is min_time, and the
\* main row of every Issue is displayed.
C25_ResetShowsAll ==
    [][resetFilters =>
           /\ ui'.currentFilter = "all"
           /\ ui'.search = <<>>
           /\ ui'.slider = MinTime
           /\ \A k \in 1..Len(issues) : ui'.shown[k]]_vars

\* the filters are as resetFilters leaves them, on a page whose script ran
\* to its end, and the row of an Issue without a time is hidden
C25_Witness ==
    /\ ui # Idle
    /\ ScriptRan
    /\ ui.currentFilter = "all"
    /\ ui.search = <<>>
    /\ ui.slider = MinTime
    /\ \E k \in 1..Len(issues) : issues[k].time = <<>> /\ ~ui.shown[k]

-----------------------------------------------------------------------------
(* C26 *)

\* C26: in every state the script reaches through the filters and
\* toggleDetails, a details row is displayed only while its main row is.
C26_DetailsOnlyWithMainRow ==
    ui # Idle => \A k \in 1..Len(issues) : ui.details[k] => ui.shown[k]

\* a filter hides one row, whose details row is hidden, while the details of
\* another row, which passes the filter, are displayed
C26_Witness ==
    /\ ui # Idle
    /\ ui.currentFilter # "all"
    /\ \E j, k \in 1..Len(issues) :
           /\ ~ui.shown[k] /\ ~ui.details[k]
           /\ ui.shown[j] /\ ui.details[j]

-----------------------------------------------------------------------------
(* C28 *)

\* the modal displays the elements of the result: the backdrop, the section
\* of the command and the element of the result are all displayed
ResultDisplayed == ui.open /\ ui.section /\ ui.shown

\* C28: under any interleaving of openModalFromDetails, executeModalCurl,
\* closeModal and the completion of fetch, the modal never displays the
\* result of a request made for the command of one Issue while it shows the
\* details of another Issue.
C28_ResultOfShownIssue ==
    ui # Idle /\ ResultDisplayed => ui.resultOf = ui.idx

\* the modal shows the details of the second Issue and displays the response
\* to the request made for the command of the first
C28_Witness ==
    /\ ui # Idle
    /\ ResultDisplayed
    /\ ui.idx = 2
    /\ ui.resultOf = 1
    /\ ui.result = "response"
    /\ ui.inflight = 0

-----------------------------------------------------------------------------
(* C29 *)

\* the class of a badge, by the literal that opens it in status_pill_html
\* or in statusHtml
PillClasses ==
    { <<"<span class='pill pill-5xx'>", "pill-5xx">>,
      <<"<span class='pill pill-4xx'>", "pill-4xx">>,
      <<"<span class='pill pill-2xx'>", "pill-2xx">>,
      <<"<span class='pill pill-unk'>n/a</span>", "pill-unk">>,
      <<"<span class=\"pill pill-5xx\">", "pill-5xx">>,
      <<"<span class=\"pill pill-4xx\">", "pill-4xx">>,
      <<"<span class=\"pill pill-2xx\">", "pill-2xx">>,
      <<"<span class=\"pill pill-unk\">", "pill-unk">>,
      <<"<span class=\"pill pill-unk\">n/a</span>", "pill-unk">> }

\* the class and the text of a badge: the text is "n/a" when the literal
\* holds it, else what stands between the start tag and the end tag, a
\* number written by the generator or characters joined in by the script
Badge(pill) ==
    LET Chars(token) ==
            IF token.kind = "html" THEN <<token.text>>
            ELSE DecimalChars(CHOOSE n \in 0..999 : ToString(n) = token.text)
    IN  [class |-> (CHOOSE c \in PillClasses : c[1] = pill[1].text)[2],
         text |-> IF Len(pill) = 1 THEN <<"n", "/", "a">>
                  ELSE Concat([i \in 1..(Len(pill) - 2) |-> Chars(pill[i + 1])])]

\* C29: for every status_code, the badge openModalFromDetails builds for
\* the modal has the same class and the same text as the badge
\* status_pill_html renders in the table row of that Issue.
C29_ModalBadgeAsRowBadge ==
    ui # Idle /\ ui.open =>
        Badge(statusHtml(DetailsData(ui.idx).status))
            = Badge(status_pill_html(issues[ui.idx].status))

\* the modal is open on an Issue of status 399: its badge reads "399" where
\* the badge of the row reads "n/a"
C29_Witness ==
    /\ ui # Idle
    /\ ui.open
    /\ issues[ui.idx].status = <<"3", "9", "9">>
    /\ Badge(statusHtml(DetailsData(ui.idx).status)).text = <<"3", "9", "9">>
    /\ Badge(status_pill_html(issues[ui.idx].status)).text = <<"n", "/", "a">>
    /\ Badge(statusHtml(DetailsData(ui.idx).status)).class = "pill-unk"
    /\ Badge(status_pill_html(issues[ui.idx].status)).class = "pill-unk"

\* the modal is open on an Issue whose status is three Arabic-Indic digits:
\* its badge is of class pill-unk where the badge of the row is a 5xx one
ModalBadgeOtherClass ==
    /\ ui # Idle
    /\ ui.open
    /\ issues[ui.idx].status = <<"U+0665", "U+0660", "U+0660">>
    /\ Badge(statusHtml(DetailsData(ui.idx).status)).class = "pill-unk"
    /\ Badge(status_pill_html(issues[ui.idx].status)) =
           [class |-> "pill-5xx", text |-> <<"5", "0", "0">>]

\* the statuses for which the two badges are the same: none, and ASCII
\* digits that make a number of 200-299 or 400-599
BadgesAgreeInRanges ==
    ui # Idle /\ ui.open =>
        LET status == issues[ui.idx].status
        IN  (\/ status = <<>>
             \/ /\ \A i \in 1..Len(status) : status[i] \in AsciiDigits
                /\ \/ 200 <= int(status) /\ int(status) < 300
                   \/ 400 <= int(status) /\ int(status) < 600)
                <=> Badge(statusHtml(DetailsData(ui.idx).status))
                        = Badge(status_pill_html(status))

-----------------------------------------------------------------------------
(* C30 *)

\* the text of the generated rows of Issue k
RowTokens(k) == Concat(RowParts(k, issues[k]))

\* the characters the generator writes of the input into attribute values
\* and text nodes are escaped: no angle bracket, no apostrophe inside an
\* attribute value (the values stand between apostrophes), and every
\* ampersand starts one of the character references html.escape writes
Escaped(tokens) ==
    \A i \in 1..Len(tokens) :
        tokens[i].kind \in {"attr", "text"} =>
            /\ tokens[i].text \notin {"<", ">"}
            /\ tokens[i].kind = "attr" => tokens[i].text # "'"
            /\ tokens[i].text = "&" =>
                   \E r \in CharRefs :
                       /\ i + Len(r[1]) - 1 <= Len(tokens)
                       /\ \A j \in 1..Len(r[1]) :
                              /\ tokens[i + j - 1].kind = tokens[i].kind
                              /\ tokens[i + j - 1].text = r[1][j]

RowsEscaped == \A k \in 1..Len(issues) : Escaped(RowTokens(k))

\* what openModalFromDetails puts into the modal for Issue idx holds the
\* input as plain text, or joined into markup without any character that
\* opens a tag or a character reference
ModalEscaped(idx) ==
    /\ \A i \in 1..Len(infoGrid(idx)) :
           infoGrid(idx)[i].kind = "html" => infoGrid(idx)[i].text \notin {"<", "&"}
    /\ \A i \in 1..Len(errorMessage(idx)) : errorMessage(idx)[i].kind = "plain"

\* C30: text taken from the input XML (suite, endpoint, time, kind, message,
\* reproduction command) never reaches the page as unescaped markup: in the
\* generated rows and in the modal filled by openModalFromDetails it is
\* inserted HTML-escaped or as plain text.
C30_InputNeverMarkup ==
    ui # Idle => /\ RowsEscaped
                 /\ ui.open => ModalEscaped(ui.idx)

\* the modal is open on the Issue of the test case named <b> & ' ": the
\* rows hold the name escaped, the string assigned to infoGrid.innerHTML
\* holds it as it is
C30_Witness ==
    /\ ui # Idle
    /\ ui.open
    /\ issues[ui.idx].endpoint = MarkupName
    /\ Escaped(RowTokens(ui.idx))
    /\ DetailsData(ui.idx).endpoint = Lower(MarkupName)
    /\ \E i \in 1..Len(infoGrid(ui.idx)) :
           /\ i + 2 <= Len(infoGrid(ui.idx))
           /\ \A j \in 0..2 : infoGrid(ui.idx)[i + j] =
                  [kind |-> "html", text |-> <<"<", "b", ">">>[j + 1]]

====
